---- MODULE Spec2Model ----
(***************************************************************************)
(* A model of the solve package (bertbaron/pathfinding): the frontier      *)
(* strategies, the constraints, generalSearch, idaStar and the solver      *)
(* facade with its continuation protocol.                                  *)
(*                                                                         *)
(* float64 values are modelled by integers; Inf stands for math.Inf(1) and *)
(* absorbs addition.  A State of the test suite is a graph node plus the   *)
(* cost of the path that reached it; a search node keeps the states of its *)
(* parent chain from the root and the edges taken.                         *)
(***************************************************************************)
EXTENDS Integers, Sequences, FiniteSets, TLC

\* ------------------------------------------------------------------ bounds
MaxCost == 2        \* edge costs are drawn from 0..MaxCost
MaxH == 2           \* heuristic values are capped at MaxH
MaxVisited == 40    \* nodes dequeued by one solver before the model stops
MaxSolves == 4      \* Solve() calls made on one solver
MaxLimit == 2       \* the finite limit given to Limit()
GenEdges == 3       \* edges of the generated three-node shapes
MaxAdds == 70       \* nodes added to the ring buffer on its own
ChanCap == 1        \* Results the channel given to SolveAll can hold
MinH == 2           \* heuristic values go down to -MinH where negative ones are tried
MaxDepth == 3       \* the depths 0..MaxDepth are given to the no-loop constraint

\* --------------------------------------------------------------- constants
Inf == 1000000      \* math.Inf(1)
MaxFloat64 == 999999 \* math.MaxFloat64, the largest finite value
Root == 1           \* graph nodes are 1..n, the root is node 1
InitialCapacity == 64
NoLoopAll == 99999  \* depth of the unbounded no-loop constraint in the tests

Max(a, b) == IF a >= b THEN a ELSE b
Min(a, b) == IF a <= b THEN a ELSE b
\* float64 addition: +Inf absorbs; a sum beyond the largest finite value rounds
\* to it, except MaxFloat64 + MaxFloat64 which overflows to +Inf
AddF(a, b) ==
  IF a >= Inf \/ b >= Inf THEN Inf
  ELSE IF a + b <= MaxFloat64 THEN a + b
  ELSE IF a = MaxFloat64 /\ b = MaxFloat64 THEN Inf
  ELSE MaxFloat64

\* ------------------------------------------------------------ test problem
\* graph: [edges : Seq([src, dst, cost]), heur : Seq(Nat), goals : SUBSET Nodes(graph)]
Nodes(g) == 1..Len(g.heur)

IsGoal(g, v) == v \in g.goals

Heuristic(g, v) == g.heur[v]

\* indexes of the edges leaving v, in the order Expand returns the children
RECURSIVE EdgesFrom(_, _, _)
EdgesFrom(g, v, i) ==
  IF i > Len(g.edges) THEN <<>>
  ELSE IF g.edges[i].src = v THEN <<i>> \o EdgesFrom(g, v, i + 1)
  ELSE EdgesFrom(g, v, i + 1)

Expand(g, v) == EdgesFrom(g, v, 1)

\* ------------------------------------------------------------------- nodes
\* a State is [node, cost]; a search node is [path, via, value]: path holds the
\* states of the parent chain from the root down to the node's own state, via
\* the indexes of the edges taken.  Nil is the nil *node.
Nil == [path |-> <<>>, via |-> <<>>, value |-> 0]

StateOf(n) == n.path[Len(n.path)]

Id(s) == s.node

Cost(s) == s.cost

rootState == [node |-> Root, cost |-> 0]

\* variant of rootNode: the value of the root is its cost alone
rootNodeCostOnly(g) ==
  [path |-> <<rootState>>, via |-> <<>>, value |-> Cost(rootState)]

\* &node{nil, rootState, rootState.Cost() + rootState.Heuristic()}
rootNode(g) ==
  [path |-> <<rootState>>, via |-> <<>>,
   value |-> AddF(Cost(rootState), Heuristic(g, rootState.node))]

\* expand(s, edge) of the test problem: state{graph, edge.target, s.cost + edge.cost}
expand(g, s, i) == [node |-> g.edges[i].dst, cost |-> AddF(s.cost, g.edges[i].cost)]

\* variant of childNode: the value is the child's own cost plus heuristic, the
\* parent's value is forgotten
childNodePlain(g, n, i) ==
  LET child == expand(g, StateOf(n), i)
  IN [path |-> Append(n.path, child), via |-> Append(n.via, i),
      value |-> AddF(Cost(child), Heuristic(g, child.node))]

\* &node{n, child, math.Max(n.value, child.Cost()+child.Heuristic())}
childNode(g, n, i) ==
  LET child == expand(g, StateOf(n), i)
  IN [path |-> Append(n.path, child), via |-> Append(n.via, i),
      value |-> Max(n.value, AddF(Cost(child), Heuristic(g, child.node)))]

\* -------------------------------------------------------------- strategies
\* a frontier: [kind, buffer, start, end]; start and end are used by the ring
\* buffer only.  Indexes are 0-based as in the source: slot i is buffer[i+1].
At(h, i) == h[i + 1]

\* variant of Less: the comparison reversed (a max-heap)
LessReversed(h, i, j) == At(h, i).value > At(h, j).value

Less(h, i, j) == At(h, i).value < At(h, j).value

Swap(h, i, j) == [h EXCEPT ![i + 1] = h[j + 1], ![j + 1] = h[i + 1]]

\* container/heap.up
RECURSIVE up(_, _)
up(h, j) ==
  LET i == IF j = 0 THEN 0 ELSE (j - 1) \div 2
  IN IF i = j \/ ~Less(h, j, i) THEN h ELSE up(Swap(h, i, j), i)

\* variant of down, as in later Go releases: of two children the left one is
\* taken unless the right one is Less
RECURSIVE downLeftOnTies(_, _, _)
downLeftOnTies(h, i, n) ==
  LET j1 == 2 * i + 1
  IN IF j1 >= n THEN h
     ELSE LET j2 == j1 + 1
              j == IF j2 < n /\ Less(h, j2, j1) THEN j2 ELSE j1
          IN IF ~Less(h, j, i) THEN h ELSE downLeftOnTies(Swap(h, i, j), j, n)

\* container/heap.down, as in the Go releases the expected statistics of
\* TestStatisticsWithDifferentConstraints were recorded with: of two children
\* the right one is taken unless the left one is Less
RECURSIVE down(_, _, _)
down(h, i, n) ==
  LET j1 == 2 * i + 1
  IN IF j1 >= n THEN h
     ELSE LET j2 == j1 + 1
              j == IF j2 < n /\ ~Less(h, j1, j2) THEN j2 ELSE j1
          IN IF ~Less(h, j, i) THEN h ELSE down(Swap(h, i, j), j, n)

\* heap.Push: Push appends, then up(Len-1)
heapPush(h, x) == up(Append(h, x), Len(h))

\* variant of heapPop: the last element is removed as it stands, without the
\* swap with the first one and without down
heapPopLast(h) ==
  [buffer |-> SubSeq(h, 1, Len(h) - 1), n |-> At(h, Len(h) - 1)]

\* heap.Pop: Swap(0, n); down(0, n); Pop removes and returns the last element
heapPop(h) ==
  LET n == Len(h) - 1
      d == down(Swap(h, 0, n), 0, n)
  IN [buffer |-> SubSeq(d, 1, n), n |-> At(d, n)]

RECURSIVE BitAnd(_, _)
BitAnd(a, b) ==
  IF a = 0 \/ b = 0 THEN 0
  ELSE (a % 2) * (b % 2) + 2 * BitAnd(a \div 2, b \div 2)

inc(b, i) == BitAnd(i + 1, Len(b.buffer) - 1)

\* variant of grow: the old buffer is copied from its first slot, not from start
growFromFirstSlot(b) ==
  [b EXCEPT !.buffer = b.buffer \o [k \in 1..Len(b.buffer) |-> Nil],
            !.start = 0, !.end = Len(b.buffer)]

\* variant of grow: the new buffer has three times the old size
growTripling(b) ==
  LET oldsize == Len(b.buffer)
      size == oldsize * 3
      live == IF b.start < b.end
              THEN SubSeq(b.buffer, b.start + 1, b.end)
              ELSE SubSeq(b.buffer, b.start + 1, oldsize) \o SubSeq(b.buffer, 1, b.end)
  IN [b EXCEPT !.buffer = live \o [k \in 1..(size - Len(live)) |-> Nil],
               !.start = 0, !.end = oldsize]

grow(b) ==
  LET oldsize == Len(b.buffer)
      size == oldsize * 2
      live == IF b.start < b.end
              THEN SubSeq(b.buffer, b.start + 1, b.end)
              ELSE SubSeq(b.buffer, b.start + 1, oldsize) \o SubSeq(b.buffer, 1, b.end)
  IN [b EXCEPT !.buffer = live \o [k \in 1..(size - Len(live)) |-> Nil],
               !.start = 0, !.end = oldsize]

aStar == [kind |-> "pq", buffer |-> <<>>, start |-> 0, end |-> 0]

depthFirst == [kind |-> "lifo", buffer |-> <<>>, start |-> 0, end |-> 0]

breadthFirst ==
  [kind |-> "ring", buffer |-> [k \in 1..InitialCapacity |-> Nil], start |-> 0, end |-> 0]

\* variant of Take: the ring buffer moves its start also when it is empty
TakeAdvancing(q) ==
  CASE q.kind = "pq" ->
         IF Len(q.buffer) = 0 THEN [n |-> Nil, queue |-> q]
         ELSE LET r == heapPop(q.buffer)
              IN [n |-> r.n, queue |-> [q EXCEPT !.buffer = r.buffer]]
    [] q.kind = "lifo" ->
         IF Len(q.buffer) = 0 THEN [n |-> Nil, queue |-> q]
         ELSE [n |-> q.buffer[Len(q.buffer)],
               queue |-> [q EXCEPT !.buffer = SubSeq(q.buffer, 1, Len(q.buffer) - 1)]]
    [] q.kind = "ring" ->
         [n |-> IF q.start = q.end THEN Nil ELSE At(q.buffer, q.start),
          queue |-> [q EXCEPT !.start = inc(q, q.start)]]

\* Take returns the node taken (Nil when the frontier is empty) and the frontier left
Take(q) ==
  CASE q.kind = "pq" ->
         IF Len(q.buffer) = 0 THEN [n |-> Nil, queue |-> q]
         ELSE LET r == heapPop(q.buffer)
              IN [n |-> r.n, queue |-> [q EXCEPT !.buffer = r.buffer]]
    [] q.kind = "lifo" ->
         IF Len(q.buffer) = 0 THEN [n |-> Nil, queue |-> q]
         ELSE [n |-> q.buffer[Len(q.buffer)],
               queue |-> [q EXCEPT !.buffer = SubSeq(q.buffer, 1, Len(q.buffer) - 1)]]
    [] q.kind = "ring" ->
         IF q.start = q.end THEN [n |-> Nil, queue |-> q]
         ELSE [n |-> At(q.buffer, q.start), queue |-> [q EXCEPT !.start = inc(q, q.start)]]

Add(q, node) ==
  CASE q.kind = "pq" -> [q EXCEPT !.buffer = heapPush(q.buffer, node)]
    [] q.kind = "lifo" -> [q EXCEPT !.buffer = Append(q.buffer, node)]
    [] q.kind = "ring" ->
         LET b == [q EXCEPT !.buffer[q.end + 1] = node, !.end = inc(q, q.end)]
         IN IF b.start = b.end THEN grow(b) ELSE b

\* ------------------------------------------------------------- constraints
\* a constraint: [kind, depth]; the cheapest-path store m maps a state id to
\* [ok, value, visited] (ok = the map has an entry)
NoConstraint == [kind |-> "none", depth |-> 0]
NoLoopConstraint(d) == [kind |-> "noloop", depth |-> d]
CheapestPathConstraint == [kind |-> "cheapest", depth |-> 0]

emptyMap(ids) == [v \in ids |-> [ok |-> FALSE, value |-> 0, visited |-> FALSE]]

\* variant of noLoopWalk: one ancestor more is looked at
RECURSIVE noLoopWalkOneMore(_, _, _, _, _)
noLoopWalkOneMore(path, id, j, i, c) ==
  IF i > c THEN FALSE
  ELSE IF j = 0 THEN FALSE
  ELSE IF id = Id(path[j]) THEN TRUE
  ELSE noLoopWalkOneMore(path, id, j - 1, i + 1, c)

\* noLoopConstraint.onExpand: walk up to c ancestors, j is the ancestor's place in the path
RECURSIVE noLoopWalk(_, _, _, _, _)
noLoopWalk(path, id, j, i, c) ==
  IF i >= c THEN FALSE
  ELSE IF j = 0 THEN FALSE
  ELSE IF id = Id(path[j]) THEN TRUE
  ELSE noLoopWalk(path, id, j - 1, i + 1, c)

\* variant of cheapestOnExpand: a child is kept also when its value equals the stored one
cheapestOnExpandKeepsEqual(m, node) ==
  LET id == Id(StateOf(node))
      current == m[id]
  IN IF ~current.ok \/ node.value <= current.value
     THEN [prune |-> FALSE,
           m |-> [m EXCEPT ![id] = [ok |-> TRUE, value |-> node.value, visited |-> FALSE]]]
     ELSE [prune |-> TRUE, m |-> m]

\* variant of cheapestOnExpand: the child is let through or pruned as before,
\* but its value is not written to the store
cheapestOnExpandNoStore(m, node) ==
  LET id == Id(StateOf(node))
      current == m[id]
  IN [prune |-> ~(~current.ok \/ node.value < current.value), m |-> m]

cheapestOnExpand(m, node) ==
  LET id == Id(StateOf(node))
      current == m[id]
  IN IF ~current.ok \/ node.value < current.value
     THEN [prune |-> FALSE,
           m |-> [m EXCEPT ![id] = [ok |-> TRUE, value |-> node.value, visited |-> FALSE]]]
     ELSE [prune |-> TRUE, m |-> m]

\* variant of cheapestOnVisit: a node whose value equals the stored one is
\* pruned whether or not the entry is marked visited
cheapestOnVisitStrict(m, node) ==
  LET id == Id(StateOf(node))
      current == m[id]
  IN IF ~current.ok \/ node.value < current.value
     THEN [prune |-> FALSE,
           m |-> [m EXCEPT ![id] = [ok |-> TRUE, value |-> node.value, visited |-> TRUE]]]
     ELSE [prune |-> TRUE, m |-> m]

\* variant of cheapestOnVisit: the same nodes pass, nothing is written to the store
cheapestOnVisitNoMark(m, node) ==
  LET id == Id(StateOf(node))
      current == m[id]
  IN IF ~current.ok \/ node.value < current.value
        \/ (node.value = current.value /\ ~current.visited)
     THEN [prune |-> FALSE, m |-> m]
     ELSE [prune |-> TRUE, m |-> m]

cheapestOnVisit(m, node) ==
  LET id == Id(StateOf(node))
      current == m[id]
  IN IF ~current.ok \/ node.value < current.value
        \/ (node.value = current.value /\ ~current.visited)
     THEN [prune |-> FALSE,
           m |-> [m EXCEPT ![id] = [ok |-> TRUE, value |-> node.value, visited |-> TRUE]]]
     ELSE [prune |-> TRUE, m |-> m]

onExpand(c, m, node) ==
  CASE c.kind = "none" -> [prune |-> FALSE, m |-> m]
    [] c.kind = "noloop" ->
         [prune |-> noLoopWalk(node.path, Id(StateOf(node)), Len(node.path) - 1, 0, c.depth),
          m |-> m]
    [] c.kind = "cheapest" -> cheapestOnExpand(m, node)

onVisit(c, m, node) ==
  CASE c.kind = "none" -> [prune |-> FALSE, m |-> m]
    [] c.kind = "noloop" -> [prune |-> FALSE, m |-> m]
    [] c.kind = "cheapest" -> cheapestOnVisit(m, node)

\* variant of reset: the store is left as it is
resetNever(c, m) == m

reset(c, m) == IF c.kind = "cheapest" THEN emptyMap(DOMAIN m) ELSE m

\* --------------------------------------------------------- problem family
\* A shape gives the number of nodes of a graph, its edges <<src, dst>> in the
\* order Expand yields them, and its goal nodes.
E(a, b) == <<a, b>>

Simple == [n |-> 4, edges |-> <<E(1, 2), E(1, 3), E(2, 4), E(2, 3)>>, goals |-> {4}]
Diamond == [n |-> 4, edges |-> <<E(1, 3), E(1, 2), E(2, 3), E(3, 4)>>, goals |-> {4}]
DiamondRev == [n |-> 4, edges |-> <<E(1, 2), E(1, 3), E(2, 3), E(3, 4)>>, goals |-> {4}]
Cyclic == [n |-> 4, edges |-> <<E(1, 1), E(1, 2), E(2, 1), E(2, 3)>>, goals |-> {3}]
GoalUnderGoal == [n |-> 4, edges |-> <<E(1, 2), E(1, 3), E(2, 4)>>, goals |-> {2, 3, 4}]
TwoGoals == [n |-> 4, edges |-> <<E(1, 2), E(1, 3), E(2, 4), E(3, 4)>>, goals |-> {3, 4}]
TwoWays == [n |-> 4, edges |-> <<E(1, 4), E(1, 2), E(2, 4), E(2, 3)>>, goals |-> {4}]
DeadEnd == [n |-> 4, edges |-> <<E(1, 2), E(2, 3), E(1, 3)>>, goals |-> {4}]
RootGoal == [n |-> 2, edges |-> <<E(1, 2), E(2, 1)>>, goals |-> {1, 2}]
Triangle == [n |-> 3, edges |-> <<E(1, 2), E(1, 3), E(2, 3)>>, goals |-> {3}]
OneEdge == [n |-> 2, edges |-> <<E(1, 2)>>, goals |-> {}]
LoopFirst == [n |-> 3, edges |-> <<E(1, 2), E(2, 3), E(1, 1)>>, goals |-> {3}]
Chain == [n |-> 3, edges |-> <<E(1, 2), E(2, 3)>>, goals |-> {}]
Cycle3 == [n |-> 4, edges |-> <<E(1, 2), E(2, 2), E(2, 3), E(3, 1), E(3, 4)>>, goals |-> {4}]

Shapes == {Simple, Diamond, DiamondRev, Cyclic, GoalUnderGoal, TwoGoals, TwoWays,
           DeadEnd, RootGoal}

\* every three-node shape with k edges into the nodes 2 and 3, node 3 being the goal
GenShapes(k) ==
  {[n |-> 3, edges |-> es, goals |-> {3}] : es \in [1..k -> {1, 2, 3} \X {2, 3}]}

\* the graph of shape sh with edge costs cs (one per edge) and heuristic hs (one per node)
mkGraph(sh, cs, hs) ==
  [edges |-> [i \in 1..Len(sh.edges) |->
                [src |-> sh.edges[i][1], dst |-> sh.edges[i][2], cost |-> cs[i]]],
   heur |-> hs, goals |-> sh.goals]

zeroHeur(n) == [v \in 1..n |-> 0]

\* the cheapest cost of a path of at most k edges from v to a goal, Inf if there is none
RECURSIVE distToGoal(_, _, _)
distToGoal(g, v, k) ==
  IF IsGoal(g, v) THEN 0
  ELSE IF k = 0 THEN Inf
  ELSE LET ds == {AddF(g.edges[i].cost, distToGoal(g, g.edges[i].dst, k - 1)) :
                    i \in {j \in 1..Len(g.edges) : g.edges[j].src = v}}
       IN IF ds = {} THEN Inf ELSE CHOOSE d \in ds : \A d2 \in ds : d <= d2

\* the minimum total cost over all root-to-goal paths (edge costs are not negative,
\* so a cheapest path visits no node twice)
MinCost(g) == distToGoal(g, Root, Len(g.heur) - 1)

Admissible(g) == \A v \in Nodes(g) : g.heur[v] <= distToGoal(g, v, Len(g.heur) - 1)

\* the heuristic that knows the exact remaining cost on the nodes of S, capped
\* at k, and nothing elsewhere: admissible, and inconsistent for most S
heurOn(g, S, k) ==
  [v \in Nodes(g) |-> IF v \in S THEN Min(distToGoal(g, v, Len(g.heur) - 1), k) ELSE 0]

Costs == 0..MaxCost

\* the graphs of the shapes shs with costs from cset and no heuristic
PlainGraphs(shs, cset) ==
  UNION {{mkGraph(sh, cs, zeroHeur(sh.n)) : cs \in [1..Len(sh.edges) -> cset]} : sh \in shs}

\* ... and with each of the admissible heuristics heurOn
HeurGraphs(shs, cset) ==
  UNION {{[g EXCEPT !.heur = heurOn(g, S, k)] : S \in SUBSET Nodes(g), k \in 1..MaxH} :
           g \in PlainGraphs(shs, cset)}

\* ... with the same cost on every edge and no heuristic
UniformGraphs(shs, cset) ==
  {mkGraph(sh, [i \in 1..Len(sh.edges) |-> c], zeroHeur(sh.n)) : sh \in shs, c \in cset}

\* ... with every heuristic up to MaxH, admissible or not
AnyHeurGraphs(shs, cset) ==
  UNION {{[g EXCEPT !.heur = hs] : hs \in [Nodes(g) -> 0..MaxH]} :
           g \in PlainGraphs(shs, cset)}

\* ... and with every heuristic from -MinH to 1: an estimate below the true
\* costs, which Heuristic() is free to return
SignedHeurGraphs(shs, cset) ==
  UNION {{[g EXCEPT !.heur = hs] : hs \in [Nodes(g) -> (0 - MinH)..1]} :
           g \in PlainGraphs(shs, cset)}

\* the finite costs and the two extreme ones
ExtremeCosts == Costs \cup {MaxFloat64, Inf}

Uniform(g) == \A i, j \in 1..Len(g.edges) : g.edges[i].cost = g.edges[j].cost

Limits == {Inf, MaxLimit}

\* ... and limits below the value a root can have
LowLimits == {-1, 1}

Constraints == {NoConstraint, NoLoopConstraint(2), NoLoopConstraint(NoLoopAll),
                CheapestPathConstraint}

\* ------------------------------------------------------------ search loop
\* the locals of one generalSearch activation, also what its continuation captures
NilFrame == [queue |-> depthFirst, visited |-> 0, expanded |-> 0,
             ubound |-> 0, limit |-> 0, contour |-> 0]

\* a continuation (*func() result): nil, the closure made by generalSearch
\* (captures the frame) or the closure made by idaStar (captures contour,
\* ubound and the underlying generalSearch closure)
NoNext == [kind |-> "nil", frame |-> NilFrame, contour |-> 0, ubound |-> 0]
\* variant of generalNext: the continuation starts with a contour of +Inf again
generalNextFreshContour(f) ==
  [kind |-> "general", frame |-> [f EXCEPT !.contour = Inf], contour |-> 0, ubound |-> 0]

generalNext(f) == [kind |-> "general", frame |-> f, contour |-> 0, ubound |-> 0]
\* variant of idaNext: the continuation drops what is left of the iteration, the
\* next Solve() finds an empty frontier and goes on to the next bound
idaNextNewIteration(contour, ubound, underlying) ==
  [kind |-> "ida", frame |-> [underlying.frame EXCEPT !.queue = depthFirst],
   contour |-> contour, ubound |-> ubound]

idaNext(contour, ubound, underlying) ==
  [kind |-> "ida", frame |-> underlying.frame, contour |-> contour, ubound |-> ubound]

NoResult == [node |-> Nil, contour |-> 0, visited |-> 0, expanded |-> 0, next |-> NoNext]

\* variant of nextContour: the value of the last child over the limit
lastContour(contour, value) == value

\* contour = math.Min(contour, childNode.value)
nextContour(contour, value) == Min(contour, value)

\* the for-loop over n.state.Expand(context): idxs are the edges still to handle
\* variant of expandChildren: a child over the limit is counted as expanded too
RECURSIVE expandChildrenCountingCut(_, _, _, _, _, _)
expandChildrenCountingCut(g, c, n, idxs, f, m) ==
  IF idxs = <<>> THEN [f |-> f, m |-> m]
  ELSE LET child == childNode(g, n, Head(idxs))
           oe == onExpand(c, m, child)
       IN IF oe.prune THEN expandChildrenCountingCut(g, c, n, Tail(idxs), f, oe.m)
          ELSE IF child.value > f.limit
          THEN expandChildrenCountingCut(g, c, n, Tail(idxs),
                              [f EXCEPT !.contour = nextContour(f.contour, child.value),
                                        !.expanded = f.expanded + 1], oe.m)
          ELSE expandChildrenCountingCut(g, c, n, Tail(idxs),
                              [f EXCEPT !.queue = Add(f.queue, child),
                                        !.expanded = f.expanded + 1], oe.m)

\* variant of expandChildren: the limit is not looked at, every child that
\* onExpand lets through is added
RECURSIVE expandChildrenNoLimit(_, _, _, _, _, _)
expandChildrenNoLimit(g, c, n, idxs, f, m) ==
  IF idxs = <<>> THEN [f |-> f, m |-> m]
  ELSE LET child == childNode(g, n, Head(idxs))
           oe == onExpand(c, m, child)
       IN IF oe.prune THEN expandChildrenNoLimit(g, c, n, Tail(idxs), f, oe.m)
          ELSE expandChildrenNoLimit(g, c, n, Tail(idxs),
                              [f EXCEPT !.queue = Add(f.queue, child),
                                        !.expanded = f.expanded + 1], oe.m)

RECURSIVE expandChildren(_, _, _, _, _, _)
expandChildren(g, c, n, idxs, f, m) ==
  IF idxs = <<>> THEN [f |-> f, m |-> m]
  ELSE LET child == childNode(g, n, Head(idxs))
           oe == onExpand(c, m, child)
       IN IF oe.prune THEN expandChildren(g, c, n, Tail(idxs), f, oe.m)
          ELSE IF child.value > f.limit
          THEN expandChildren(g, c, n, Tail(idxs),
                              [f EXCEPT !.contour = nextContour(f.contour, child.value)], oe.m)
          ELSE expandChildren(g, c, n, Tail(idxs),
                              [f EXCEPT !.queue = Add(f.queue, child),
                                        !.expanded = f.expanded + 1], oe.m)

\* the children of n that onExpand does not prune, in the order of the for-loop:
\* <<state id, value, added>>, added telling that the value is within the limit
RECURSIVE keptChildren(_, _, _, _, _, _)
keptChildren(g, c, n, idxs, lim, m) ==
  IF idxs = <<>> THEN <<>>
  ELSE LET child == childNode(g, n, Head(idxs))
           oe == onExpand(c, m, child)
       IN IF oe.prune THEN keptChildren(g, c, n, Tail(idxs), lim, oe.m)
          ELSE <<<<Id(StateOf(child)), child.value, child.value <= lim>>>>
                 \o keptChildren(g, c, n, Tail(idxs), lim, oe.m)

\* variant of isSolution: the goal test alone
isGoalOnly(g, n, ubound) == IsGoal(g, StateOf(n).node)

\* n.state.IsGoal(context) && n.value > ubound
isSolution(g, n, ubound) == IsGoal(g, StateOf(n).node) /\ n.value > ubound

\* one pass through the body of generalSearch's loop: done tells that the
\* function returned res, otherwise the loop goes on with f
loopBody(g, c, f0, m) ==
  LET t == Take(f0.queue)
      n == t.n
  IN IF n = Nil
     THEN [done |-> TRUE, f |-> f0, m |-> m,
           res |-> [node |-> Nil, contour |-> f0.contour, visited |-> f0.visited,
                    expanded |-> f0.expanded, next |-> NoNext]]
     ELSE LET f == [f0 EXCEPT !.queue = t.queue, !.visited = f0.visited + 1]
              ov == onVisit(c, m, n)
          IN IF ov.prune THEN [done |-> FALSE, f |-> f, m |-> ov.m, res |-> NoResult]
             ELSE IF isSolution(g, n, f.ubound)
             THEN [done |-> TRUE, f |-> f, m |-> ov.m,
                   res |-> [node |-> n, contour |-> f.contour, visited |-> f.visited,
                            expanded |-> f.expanded, next |-> generalNext(f)]]
             ELSE LET x == expandChildren(g, c, n, Expand(g, StateOf(n).node), f, ov.m)
                  IN [done |-> FALSE, f |-> x.f, m |-> x.m, res |-> NoResult]

\* generalSearch(queue, visited, expanded, constr, ubound, limit, contour, context) on entry
enterSearch(queue, visited, expanded, ubound, lim, contour) ==
  [queue |-> queue, visited |-> visited, expanded |-> expanded,
   ubound |-> ubound, limit |-> lim, contour |-> contour]

\* variant of startGeneralSearch: the limit is exclusive, a node whose value
\* equals it is cut off (values are whole numbers here)
startGeneralSearchExclusive(queue, lim) == enterSearch(queue, 0, 0, -1, lim - 1, Inf)

startGeneralSearch(queue, lim) == enterSearch(queue, 0, 0, -1, lim, Inf)

\* idaStar, "start with new iteration": a fresh stack with the root, searched up to contour
newIteration(g, ida) ==
  enterSearch(Add(depthFirst, rootNode(g)), ida.visited, ida.expanded,
              ida.ubound, ida.contour, Inf)

\* variant of startIdaStar: the first iteration reports goals above the value 0 only
startIdaStarFromZero == [contour |-> 0, ubound |-> 0, visited |-> 0, expanded |-> 0]

\* idaStar's locals when startIdaStar calls it
startIdaStar == [contour |-> 0, ubound |-> -1, visited |-> 0, expanded |-> 0]

\* variant of idaVerdict: the search is given up only when the contour exceeds
\* the limit, an infinite contour is not looked at
idaVerdictLimitOnly(r, lim) ==
  IF r.node # Nil THEN "found"
  ELSE IF r.contour > lim THEN "stop"
  ELSE "deepen"

\* what idaStar does with the result r of a bounded search: "found" returns the
\* solution, "stop" returns no solution, "deepen" starts the next iteration
idaVerdict(r, lim) ==
  IF r.node # Nil THEN "found"
  ELSE IF r.contour > lim \/ r.contour >= Inf THEN "stop"
  ELSE "deepen"

\* variant of deepen: the counters of idaStar's own locals are kept instead of
\* those of the last result
deepenFromLocals(ida, r) ==
  [ubound |-> ida.contour, visited |-> ida.visited, expanded |-> ida.expanded,
   contour |-> r.contour]

\* variant of deepen: ubound stays what it was, the bound of the iteration that
\* ends is not remembered
deepenKeepsUbound(ida, r) ==
  [ubound |-> ida.ubound, visited |-> r.visited, expanded |-> r.expanded,
   contour |-> r.contour]

\* idaStar's locals for the next iteration
deepen(ida, r) ==
  [ubound |-> ida.contour, visited |-> r.visited, expanded |-> r.expanded,
   contour |-> r.contour]

\* the result idaStar returns for the result r of its last bounded search
idaResult(ida, r) ==
  IF r.node # Nil
  THEN [r EXCEPT !.next = idaNext(ida.contour, ida.ubound, r.next)]
  ELSE [r EXCEPT !.next = NoNext]

\* variant of strategyOf: the stack for every algorithm
strategyAlwaysStack(a) == depthFirst

\* var s strategy, assigned by no case of the switch: the nil interface
NilStrategy == [kind |-> "nil", buffer |-> <<>>, start |-> 0, end |-> 0]

\* variant of strategyOf: a default case that picks the priority queue
strategyOfDefaultAstar(a) ==
  CASE a = "Astar" -> aStar
    [] a = "DepthFirst" -> depthFirst
    [] a = "BreadthFirst" -> breadthFirst
    [] OTHER -> aStar

\* the strategy solve() picks for an algorithm other than IDAstar
strategyOf(a) ==
  CASE a = "Astar" -> aStar
    [] a = "DepthFirst" -> depthFirst
    [] a = "BreadthFirst" -> breadthFirst
    [] OTHER -> NilStrategy

\* variant of toSlice: the state of the node alone, as Result.GoalState gives it
toSliceGoalOnly(node) == IF node = Nil THEN <<>> ELSE <<StateOf(node)>>

\* variant of toSlice: the states from the node up to the root
RECURSIVE toSliceLeafFirst(_)
toSliceLeafFirst(node) ==
  IF node.path = <<>> THEN <<>>
  ELSE <<StateOf(node)>>
         \o toSliceLeafFirst([node EXCEPT !.path = SubSeq(node.path, 1, Len(node.path) - 1)])

\* append(toSlice(node.parent), node.state): the states from the root to the node
toSlice(node) == node.path

\* variant of completedOf: completed as soon as started
completedWhenStarted(isStarted, r) == isStarted

\* s.started && s.result.next == nil
completedOf(isStarted, r) == isStarted /\ r.next.kind = "nil"

\* a Result as the caller of Solve() gets it, with the node it was made from
\* and what Completed() says once Solve() has returned
toResult(r) ==
  [Solution |-> toSlice(r.node), Visited |-> r.visited, Expanded |-> r.expanded,
   node |-> r.node, completed |-> completedOf(TRUE, r)]

\* variant of exhaustedResult: the zero Result
exhaustedZero(r) ==
  [Solution |-> <<>>, Visited |-> 0, Expanded |-> 0,
   node |-> Nil, completed |-> completedOf(TRUE, r)]

\* Result{[]State{}, ss.result.visited, ss.result.expanded}
exhaustedResult(r) ==
  [Solution |-> <<>>, Visited |-> r.visited, Expanded |-> r.expanded,
   node |-> Nil, completed |-> completedOf(TRUE, r)]

\* Result.Solved: len(result.Solution) > 0
Solved(r) == Len(r.Solution) > 0

\* variant of forCondition: the loop of SolveAll goes on whatever Solve() returned
forConditionAlways(r) == TRUE

\* the condition of the for loop of SolveAll: result.Solved()
forCondition(r) == Solved(r)

\* ------------------------------------------------------------------ solver
VARIABLES
  graph,       \* the problem behind rootState
  algorithm,   \* solver.algorithm
  constraint,  \* solver.constraint
  limit,       \* solver.limit
  started,     \* solver.started
  result,      \* solver.result
  m,           \* the store of the cheapest-path constraint
  pc,          \* "idle": no Solve() running; "search": in generalSearch's loop;
               \* "returned": generalSearch has returned lastResult to its caller;
               \* "panic": Solve() has panicked
  frame,       \* locals of the running generalSearch
  ida,         \* locals of the running idaStar: contour, ubound, visited, expanded
  lastResult,  \* the result generalSearch returned
  history,     \* the Results returned by the Solve() calls so far
  kept,        \* <<state id, value, added>> of the children that onExpand did not prune
               \* since the running bounded search was started, in that order
  passed,      \* <<state id, value>> of the nodes that were dequeued and not pruned by
               \* onVisit since the last reset() of the constraint, in that order
  solveAllPc,  \* SolveAll: "none": not called; "solving": in s.Solve() or at the loop
               \* condition; "sent": after solutions <- result; "done": returned
  solveAllFrom, \* the number of Results Solve() had returned when SolveAll was called
  solutions,   \* the channel given to SolveAll: [buffer, closed]
  received,    \* the Results a consumer has received from the channel
  ringbuffer,  \* TestRingbuffer: the ring buffer b
  added,       \* TestRingbuffer: the number of nodes added
  taken        \* TestRingbuffer: the values of the nodes taken

\* what the solver and its search are made of
solverVars == <<graph, algorithm, constraint, limit, started, result, m, pc, frame, ida,
                lastResult, history, passed, kept>>

\* the channel of SolveAll with its two ends
channelVars == <<solveAllPc, solveAllFrom, solutions, received>>

\* the locals of TestRingbuffer
ringVars == <<ringbuffer, added, taken>>

vars == <<solverVars, channelVars, ringVars>>

\* make(chan Result, ...), nothing sent
NewChannel == [buffer |-> <<>>, closed |-> FALSE]

Algorithms == {"Astar", "DepthFirst", "BreadthFirst", "IDAstar"}

\* Algorithm(4): a value of the int type that is none of the four constants
UnknownAlgorithm == "<unknown>"

NilIda == [contour |-> 0, ubound |-> 0, visited |-> 0, expanded |-> 0]

\* solver.Completed
Completed == completedOf(started, result)

\* NewSolver(rootState) followed by Algorithm(a), Constraint(c), Limit(l)
NewSolver(gs, as, cs, ls) ==
  /\ graph \in gs
  /\ algorithm \in as
  /\ constraint \in cs
  /\ limit \in ls
  /\ started = FALSE
  /\ result = NoResult
  /\ m = emptyMap(Nodes(graph))
  /\ pc = "idle"
  /\ frame = NilFrame
  /\ ida = NilIda
  /\ lastResult = NoResult
  /\ history = <<>>
  /\ passed = <<>>
  /\ kept = <<>>
  /\ solveAllPc = "none"
  /\ solveAllFrom = 0
  /\ solutions = NewChannel
  /\ received = <<>>
  /\ ringbuffer = breadthFirst
  /\ added = 0
  /\ taken = <<>>

\* solve(ss): a call on an idle solver, up to the point where it returns or
\* enters generalSearch
solve ==
  /\ pc = "idle"
  /\ Len(history) < MaxSolves
  /\ IF started
     THEN IF result = NoResult
          THEN \* ss.result is nil: ss.result.next panics
               /\ pc' = "panic"
               /\ UNCHANGED <<started, result, m, frame, ida, lastResult, history, passed, kept>>
          ELSE IF result.next.kind = "nil"
          THEN \* no more possible solutions
               /\ history' = Append(history, exhaustedResult(result))
               /\ UNCHANGED <<started, result, m, pc, frame, ida, lastResult, passed, kept>>
          ELSE \* (*ss.result.next)()
               /\ pc' = "search"
               /\ frame' = result.next.frame
               /\ ida' = IF result.next.kind = "ida"
                         THEN [contour |-> result.next.contour,
                               ubound |-> result.next.ubound,
                               visited |-> 0, expanded |-> 0]
                         ELSE ida
               /\ UNCHANGED <<started, result, m, lastResult, history, passed, kept>>
     ELSE /\ started' = TRUE
          /\ IF algorithm = "IDAstar"
             THEN /\ ida' = startIdaStar
                  /\ frame' = newIteration(graph, startIdaStar)
                  /\ m' = reset(constraint, m)
                  /\ passed' = <<>>
                  /\ kept' = <<>>
                  /\ pc' = "search"
             ELSE IF strategyOf(algorithm) = NilStrategy
             THEN \* s.Add on the nil strategy panics
                  /\ pc' = "panic"
                  /\ UNCHANGED <<frame, ida, m, passed, kept>>
             ELSE /\ frame' = startGeneralSearch(Add(strategyOf(algorithm), rootNode(graph)),
                                                 limit)
                  /\ ida' = ida
                  /\ m' = reset(constraint, m)
                  /\ passed' = <<>>
                  /\ kept' = <<>>
                  /\ pc' = "search"
          /\ UNCHANGED <<result, lastResult, history>>
  /\ UNCHANGED <<graph, algorithm, constraint, limit>>

\* Solve(), called by the user of the solver while no SolveAll is running
Solve ==
  /\ solveAllPc \in {"none", "done"}
  /\ solve
  /\ UNCHANGED <<channelVars, ringVars>>

\* one pass through the loop of generalSearch
generalSearch ==
  /\ pc = "search"
  /\ frame.visited < MaxVisited
  /\ LET b == loopBody(graph, constraint, frame, m)
     IN /\ frame' = b.f
        /\ m' = b.m
        /\ lastResult' = IF b.done THEN b.res ELSE lastResult
        /\ pc' = IF b.done THEN "returned" ELSE "search"
        /\ kept' = IF Take(frame.queue).n = Nil THEN kept
                    ELSE IF onVisit(constraint, m, Take(frame.queue).n).prune THEN kept
                    ELSE IF isSolution(graph, Take(frame.queue).n, frame.ubound) THEN kept
                    ELSE kept \o keptChildren(graph, constraint, Take(frame.queue).n,
                                              Expand(graph, StateOf(Take(frame.queue).n).node),
                                              frame.limit,
                                              onVisit(constraint, m, Take(frame.queue).n).m)
        /\ passed' = IF Take(frame.queue).n = Nil THEN passed
                      ELSE IF onVisit(constraint, m, Take(frame.queue).n).prune THEN passed
                      ELSE Append(passed, <<Id(StateOf(Take(frame.queue).n)),
                                            Take(frame.queue).n.value>>)
  /\ UNCHANGED <<graph, algorithm, constraint, limit, started, result, ida, history>>
  /\ UNCHANGED <<channelVars, ringVars>>

\* Solve() hands r to its caller
returnResult(r) ==
  /\ result' = r
  /\ history' = Append(history, toResult(r))
  /\ pc' = "idle"

\* the caller of generalSearch takes its result: idaStar returns it, gives up or
\* starts the next iteration; solve() stores and returns it
return ==
  /\ pc = "returned"
  /\ IF algorithm = "IDAstar"
     THEN IF idaVerdict(lastResult, limit) = "deepen"
          THEN /\ ida' = deepen(ida, lastResult)
               /\ frame' = newIteration(graph, deepen(ida, lastResult))
               /\ m' = reset(constraint, m)
               /\ passed' = <<>>
               /\ kept' = <<>>
               /\ pc' = "search"
               /\ UNCHANGED <<result, history>>
          ELSE \* found a solution, or no (more) solutions
               /\ returnResult(idaResult(ida, lastResult))
               /\ UNCHANGED <<frame, ida, m, passed, kept>>
     ELSE /\ returnResult(lastResult)
          /\ UNCHANGED <<frame, ida, m, passed, kept>>
  /\ UNCHANGED <<graph, algorithm, constraint, limit, started, lastResult>>
  /\ UNCHANGED <<channelVars, ringVars>>

Next == Solve \/ generalSearch \/ return

\* ------------------------------------------------------------- SolveAll
\* SolveAll(solutions), called once with a channel nothing else sends on: the
\* call up to where the first s.Solve() returns or enters generalSearch
SolveAll ==
  /\ solveAllPc = "none"
  /\ solve
  /\ solveAllPc' = "solving"
  /\ solveAllFrom' = Len(history)
  /\ UNCHANGED <<solutions, received, ringVars>>

\* s.Solve() has returned a result that passes the loop condition:
\* solutions <- result, which waits while the channel is full
send ==
  /\ solveAllPc = "solving" /\ pc = "idle"
  /\ forCondition(history[Len(history)])
  /\ Len(solutions.buffer) < ChanCap
  /\ solutions' = [solutions EXCEPT !.buffer = Append(@, history[Len(history)])]
  /\ solveAllPc' = "sent"
  /\ UNCHANGED <<solverVars, solveAllFrom, received, ringVars>>

\* the post statement of the loop: result = s.Solve()
loop ==
  /\ solveAllPc = "sent"
  /\ solve
  /\ solveAllPc' = "solving"
  /\ UNCHANGED <<solveAllFrom, solutions, received, ringVars>>

\* s.Solve() has returned a result that fails the loop condition: SolveAll
\* returns and the deferred close(solutions) runs
close ==
  /\ solveAllPc = "solving" /\ pc = "idle"
  /\ ~forCondition(history[Len(history)])
  /\ solutions' = [solutions EXCEPT !.closed = TRUE]
  /\ solveAllPc' = "done"
  /\ UNCHANGED <<solverVars, solveAllFrom, received, ringVars>>

\* the goroutine at the other end of the channel: result := <-solutions
receive ==
  /\ solutions.buffer # <<>>
  /\ received' = Append(received, Head(solutions.buffer))
  /\ solutions' = [solutions EXCEPT !.buffer = Tail(@)]
  /\ UNCHANGED <<solverVars, solveAllPc, solveAllFrom, ringVars>>

NextSolveAll ==
  Solve \/ SolveAll \/ generalSearch \/ return \/ send \/ loop \/ close \/ receive

\* ------------------------------------------------- unknown algorithm tag
\* the caller of Solve() recovers from the panic and goes on with the solver
recover ==
  /\ pc = "panic"
  /\ pc' = "idle"
  /\ UNCHANGED <<graph, algorithm, constraint, limit, started, result, m, frame, ida,
                 lastResult, history, passed, kept, channelVars, ringVars>>

NextUnknown == Solve \/ generalSearch \/ return \/ recover

\* ------------------------------------------------------- TestRingbuffer
\* mknode(i): &node{nil, nil, float64(i)}, a node that is not the nil pointer
mknode(k) == [path |-> <<rootState>>, via |-> <<>>, value |-> k]

\* b.Add(mknode(i)) for the next i
ringAdd ==
  /\ added < MaxAdds
  /\ ringbuffer' = Add(ringbuffer, mknode(added))
  /\ added' = added + 1
  /\ UNCHANGED <<taken, solverVars, channelVars>>

\* taken := b.Take(); nil when the buffer is empty
ringTake ==
  /\ ringbuffer' = Take(ringbuffer).queue
  /\ taken' = IF Take(ringbuffer).n = Nil THEN taken
              ELSE Append(taken, Take(ringbuffer).n.value)
  /\ UNCHANGED <<added, solverVars, channelVars>>

NextRing == ringAdd \/ ringTake

\* ------------------------------------------------- a whole first Solve()
\* generalSearch run from frame f until it returns; cut = TRUE when it has not
\* returned after MaxVisited nodes
RECURSIVE runSearch(_, _, _, _)
runSearch(g, c, f, mm) ==
  IF f.visited >= MaxVisited THEN [cut |-> TRUE, res |-> NoResult, m |-> mm]
  ELSE LET b == loopBody(g, c, f, mm)
       IN IF b.done THEN [cut |-> FALSE, res |-> b.res, m |-> b.m]
          ELSE runSearch(g, c, b.f, b.m)

RECURSIVE runIdaStar(_, _, _, _, _)
runIdaStar(g, c, lim, i, mm) ==
  LET r == runSearch(g, c, newIteration(g, i), reset(c, mm))
  IN IF r.cut THEN r
     ELSE IF idaVerdict(r.res, lim) = "deepen" THEN runIdaStar(g, c, lim, deepen(i, r.res), r.m)
     ELSE [r EXCEPT !.res = idaResult(i, r.res)]

\* the outcome of the first Solve() of NewSolver(g).Algorithm(a).Constraint(c).Limit(lim)
firstSolve(g, a, c, lim) ==
  IF a = "IDAstar" THEN runIdaStar(g, c, lim, startIdaStar, emptyMap(Nodes(g)))
  ELSE runSearch(g, c, startGeneralSearch(Add(strategyOf(a), rootNode(g)), lim),
                 reset(c, emptyMap(Nodes(g))))

\* the Solve() that follows the one with outcome prev: (*ss.result.next)()
nextSolve(g, c, lim, prev) ==
  LET next == prev.res.next
      r == runSearch(g, c, next.frame, prev.m)
      i == [contour |-> next.contour, ubound |-> next.ubound, visited |-> 0, expanded |-> 0]
  IN IF next.kind = "general" \/ r.cut THEN r
     ELSE IF idaVerdict(r.res, lim) = "deepen" THEN runIdaStar(g, c, lim, deepen(i, r.res), r.m)
     ELSE [r EXCEPT !.res = idaResult(i, r.res)]

\* the goal nodes of the solutions returned from the Solve() with outcome r on,
\* until one returns no solution; cut = TRUE when that takes more than k calls
\* or more than MaxVisited nodes
RECURSIVE collect(_, _, _, _, _)
collect(g, c, lim, r, k) ==
  IF r.cut THEN [cut |-> TRUE, nodes |-> <<>>]
  ELSE IF r.res.node = Nil THEN [cut |-> FALSE, nodes |-> <<>>]
  ELSE IF k = 0 THEN [cut |-> TRUE, nodes |-> <<>>]
  ELSE LET rest == collect(g, c, lim, nextSolve(g, c, lim, r), k - 1)
       IN [cut |-> rest.cut, nodes |-> <<r.res.node>> \o rest.nodes]

\* for result := s.Solve(); result.Solved(); result = s.Solve(): every solution
\* of NewSolver(g).Algorithm(a).Constraint(c).Limit(lim)
solveAll(g, a, c, lim) == collect(g, c, lim, firstSolve(g, a, c, lim), MaxSolves)

\* ---------------------------------------------------------- specifications
\* every algorithm and constraint, with and without a limit, no heuristic
Init == NewSolver(PlainGraphs(Shapes, 1..MaxCost), Algorithms, Constraints, Limits)

Spec == Init /\ [][Next]_vars

\* the algorithms that promise an optimal solution, with no constraint and no
\* limit: admissible heuristics (on the cyclic graphs when their costs are
\* positive), and every heuristic on two ways to one goal
InitOptimal ==
  NewSolver(HeurGraphs({Diamond, TwoGoals, TwoWays}, Costs)
              \cup HeurGraphs({Cyclic}, 1..MaxCost) \cup PlainGraphs({Cyclic}, Costs)
              \cup AnyHeurGraphs({Triangle}, Costs),
            {"Astar", "IDAstar"}, {NoConstraint}, {Inf})

SpecOptimal == InitOptimal /\ [][Next]_vars

\* breadth-first on graphs whose edges all cost the same
InitBreadthFirst ==
  NewSolver(UniformGraphs(Shapes \cup GenShapes(GenEdges), 1..MaxCost),
            {"BreadthFirst"}, {NoConstraint}, Limits)

SpecBreadthFirst == InitBreadthFirst /\ [][Next]_vars

\* every algorithm under the pruning constraints, on graphs where two paths
\* reach a state, with admissible heuristics
InitConstraints ==
  NewSolver(HeurGraphs({DiamondRev, Cyclic}, Costs), Algorithms,
            Constraints \ {NoConstraint}, Limits)

SpecConstraints == InitConstraints /\ [][Next]_vars

\* IDA* under every constraint, on graphs with several goals or several ways to a goal
InitIDAstar ==
  NewSolver(PlainGraphs({GoalUnderGoal, TwoGoals, TwoWays, Cyclic, RootGoal}, Costs),
            {"IDAstar"}, Constraints, Limits)

SpecIDAstar == InitIDAstar /\ [][Next]_vars

\* A* under every constraint: with any heuristic on two ways to one goal, and
\* without heuristic on graphs with several goals or a cycle
InitAstar ==
  NewSolver(AnyHeurGraphs({Triangle}, Costs)
              \cup PlainGraphs({GoalUnderGoal, TwoGoals, Cyclic}, Costs),
            {"Astar"}, Constraints, Limits)

SpecAstar == InitAstar /\ [][Next]_vars

\* IDA* with the default limit on acyclic graphs without a reachable goal, the
\* edges costing anything from 0 to +Inf.  Once Solve() is called the loops of
\* generalSearch and idaStar run on without waiting for anything, hence the
\* weak fairness on both; nothing obliges the caller to call Solve().
InitNoGoal ==
  \/ NewSolver(PlainGraphs({OneEdge}, ExtremeCosts), {"IDAstar"}, Constraints, {Inf})
  \/ NewSolver(PlainGraphs({Chain}, ExtremeCosts) \cup PlainGraphs({DeadEnd}, {1, MaxFloat64}),
               {"IDAstar"}, {NoConstraint}, {Inf})

SpecNoGoal == InitNoGoal /\ [][Next]_vars /\ WF_vars(generalSearch) /\ WF_vars(return)

\* depth-first search with a finite limit on graphs with positive costs: two
\* ways to the goal, and a loop at the root that the stack follows first.  The
\* fairness is that of SpecNoGoal.
InitDepthFirst ==
  NewSolver(PlainGraphs({LoopFirst, Triangle}, 1..MaxCost), {"DepthFirst"}, {NoConstraint},
            {MaxLimit})

SpecDepthFirst == InitDepthFirst /\ [][Next]_vars /\ WF_vars(generalSearch) /\ WF_vars(return)

\* every algorithm with limits from -1 to +Inf: a root that is a goal and has
\* any heuristic, and graphs without heuristic
InitLimit ==
  NewSolver(AnyHeurGraphs({RootGoal}, Costs) \cup PlainGraphs({Triangle, Cyclic}, Costs),
            Algorithms, {NoConstraint}, Limits \cup LowLimits)

SpecLimit == InitLimit /\ [][Next]_vars

\* the ring buffer alone, under every interleaving of Add and Take
InitRing ==
  NewSolver({mkGraph(OneEdge, <<1>>, zeroHeur(2))}, {"BreadthFirst"}, {NoConstraint}, {Inf})

SpecRing == InitRing /\ [][NextRing]_vars

\* TestSimpleProblem: a->b(1), a->c(1), b->D(1), b->c(1), with every algorithm
\* and constraint, under the limit of the test, no limit and the limit 2
SimpleGraph == mkGraph(Simple, <<1, 1, 1, 1>>, zeroHeur(4))

InitSimple == NewSolver({SimpleGraph}, Algorithms, Constraints, {2, MaxFloat64, Inf})

SpecSimple == InitSimple /\ [][Next]_vars

\* TestStatisticsWithDifferentConstraints: a->a(1), a->b(1), b->c(1), b->d(2),
\* c->a(1), c->d(1), d->E(1) with a, b, c, d, E as nodes 1..5, solved with A*
StatisticsShape ==
  [n |-> 5, edges |-> <<E(1, 1), E(1, 2), E(2, 3), E(2, 4), E(3, 1), E(3, 4), E(4, 5)>>,
   goals |-> {5}]

StatisticsGraph == mkGraph(StatisticsShape, <<1, 1, 1, 2, 1, 1, 1>>, zeroHeur(5))

InitStatistics == NewSolver({StatisticsGraph}, {"Astar"}, Constraints, {MaxFloat64, Inf})

SpecStatistics == InitStatistics /\ [][Next]_vars

\* SolveAll on a solver that may have been asked for some solutions before,
\* with a consumer receiving at its own pace
InitSolveAll ==
  NewSolver(PlainGraphs({GoalUnderGoal, TwoWays, DeadEnd, RootGoal}, {1}),
            Algorithms, Constraints, Limits)

SpecSolveAll == InitSolveAll /\ [][NextSolveAll]_vars

\* a solver whose algorithm is one of the four or a tag outside them
InitUnknown ==
  NewSolver(PlainGraphs({Simple, TwoGoals, RootGoal}, 1..MaxCost),
            Algorithms \cup {UnknownAlgorithm}, Constraints, Limits)

SpecUnknown == InitUnknown /\ [][NextUnknown]_vars

\* every algorithm on graphs whose heuristic may be negative
InitSigned ==
  NewSolver(SignedHeurGraphs({RootGoal, Triangle}, Costs), Algorithms, {NoConstraint}, {Inf})

SpecSigned == InitSigned /\ [][Next]_vars

\* the stores a cheapest-path constraint can hold when it is given to a solver:
\* empty, or with entries left by an earlier search with the same constraint
UsedMaps(ids) ==
  [ids -> {[ok |-> FALSE, value |-> 0, visited |-> FALSE],
           [ok |-> TRUE, value |-> 0, visited |-> TRUE]}]

\* c := CheapestPathConstraint(), used or not by another solver, then
\* NewSolver(rootState).Algorithm(a).Constraint(c).Limit(l)
InitReset ==
  /\ graph \in PlainGraphs({Triangle, TwoWays}, 1..MaxCost)
  /\ algorithm \in Algorithms
  /\ constraint = CheapestPathConstraint
  /\ limit \in Limits
  /\ started = FALSE
  /\ result = NoResult
  /\ m \in UsedMaps(Nodes(graph))
  /\ pc = "idle"
  /\ frame = NilFrame
  /\ ida = NilIda
  /\ lastResult = NoResult
  /\ history = <<>>
  /\ passed = <<>>
  /\ kept = <<>>
  /\ solveAllPc = "none"
  /\ solveAllFrom = 0
  /\ solutions = NewChannel
  /\ received = <<>>
  /\ ringbuffer = breadthFirst
  /\ added = 0
  /\ taken = <<>>

SpecReset == InitReset /\ [][Next]_vars

\* every algorithm under the cheapest-path constraint, without heuristic, on
\* graphs where two paths reach a state or a cycle leads back to the root
InitCheapest ==
  NewSolver(PlainGraphs({DiamondRev, Cyclic, Triangle}, Costs), Algorithms,
            {CheapestPathConstraint}, Limits)

SpecCheapest == InitCheapest /\ [][Next]_vars

\* every algorithm under the no-loop constraint of every depth 0..MaxDepth and
\* of the depth that covers all ancestors, on graphs with cycles of length 1, 2 and 3
InitNoLoop ==
  NewSolver(PlainGraphs({Cyclic, Cycle3}, {1}), Algorithms,
            {NoLoopConstraint(d) : d \in 0..MaxDepth} \cup {NoLoopConstraint(NoLoopAll)},
            Limits)

SpecNoLoop == InitNoLoop /\ [][Next]_vars

\* the for-loop of generalSearch has a next pass to make: <<generalSearch>>_vars
\* is enabled in exactly these states, every pass changing pc or frame.visited
generalSearchEnabled == pc = "search" /\ frame.visited < MaxVisited

\* weak fairness of generalSearch, WF_vars(generalSearch) with its ENABLED
\* written out as generalSearchEnabled
FairSearch == []<>(~generalSearchEnabled) \/ []<><<generalSearch>>_vars

\* every algorithm with a finite limit and no constraint on graphs with cycles
\* and positive edge costs.  The loops of generalSearch and idaStar run on
\* without waiting for anything, and the caller goes on calling Solve() for as
\* long as it likes: weak fairness on the three.
InitTermination ==
  NewSolver(PlainGraphs({Cyclic, LoopFirst, Cycle3}, 1..MaxCost), Algorithms, {NoConstraint},
            {MaxLimit})

SpecTermination ==
  InitTermination /\ [][Next]_vars /\ FairSearch /\ WF_vars(return) /\ WF_vars(Solve)

\* ------------------------------------------------------------------ claims
Last(sq) == sq[Len(sq)]

GoalCost(r) == Cost(Last(r.Solution))

FirstSolveDone == Len(history) >= 1

\* pairs of Solve() calls that have returned, the earlier one first
Calls == {p \in (1..Len(history)) \X (1..Len(history)) : p[1] < p[2]}

PositiveCosts(g) == \A i \in 1..Len(g.edges) : g.edges[i].cost > 0

\* C3: with BreadthFirst and no constraint, on a graph whose edges all have the
\* same positive cost and whose heuristic is zero, the first Solve() returns a
\* solution whenever a goal is reachable within the limit, and the goal cost of
\* the solution it returns is the minimum cost of a root-to-goal path.
C3_BreadthFirstOptimal ==
  (/\ algorithm = "BreadthFirst" /\ constraint = NoConstraint
   /\ Uniform(graph) /\ PositiveCosts(graph)
   /\ graph.heur = zeroHeur(Len(graph.heur))
   /\ FirstSolveDone)
  => /\ (MinCost(graph) < Inf /\ MinCost(graph) <= limit) => Solved(history[1])
     /\ Solved(history[1]) => GoalCost(history[1]) = MinCost(graph)

\* breadth-first has returned a shortest path of two edges although the first
\* edge out of the root starts a longer way to the goal
C3_Witness ==
  /\ algorithm = "BreadthFirst" /\ constraint = NoConstraint
  /\ Uniform(graph) /\ PositiveCosts(graph)
  /\ FirstSolveDone /\ Solved(history[1])
  /\ Len(history[1].Solution) = 3
  /\ history[1].node.via[1] # Head(Expand(graph, Root))
  /\ GoalCost(history[1]) = MinCost(graph)

\* the conditions under which the algorithm promises an optimal first solution
OptimalSetting ==
  CASE algorithm \in {"Astar", "IDAstar"} -> Admissible(graph)
    [] algorithm = "BreadthFirst" -> Uniform(graph)
    [] OTHER -> FALSE

\* C4: compared with the same solver under the constraint None, a pruning
\* constraint never increases the cost of the first solution of an algorithm
\* run under the conditions in which it is optimal, and under every algorithm
\* it never turns a first Solve() that finds a solution into one that finds none.
C4_ConstraintKeepsSolution ==
  (pc = "idle" /\ Len(history) = 1 /\ constraint # NoConstraint) =>
    LET base == firstSolve(graph, algorithm, NoConstraint, limit)
    IN (~base.cut /\ base.res.node # Nil) =>
         /\ Solved(history[1])
         /\ OptimalSetting => GoalCost(history[1]) <= Cost(StateOf(base.res.node))

\* a first Solve() under a pruning constraint has pruned a node and returned
\* the same cost as the solver without constraint
C4_Witness ==
  /\ pc = "idle" /\ Len(history) = 1 /\ constraint = CheapestPathConstraint
  /\ Solved(history[1]) /\ OptimalSetting
  /\ LET base == firstSolve(graph, algorithm, NoConstraint, limit)
     IN /\ ~base.cut /\ base.res.node # Nil
        /\ GoalCost(history[1]) = Cost(StateOf(base.res.node))
        /\ history[1].Expanded < base.res.expanded

\* C5: the Visited and Expanded counters reported by a Solve() call are greater
\* than or equal to those reported by the call before it, under every algorithm.
C5_CountersNeverReset ==
  \A i \in 1..(Len(history) - 1) :
    /\ history[i + 1].Visited >= history[i].Visited
    /\ history[i + 1].Expanded >= history[i].Expanded

\* IDA* has returned a second solution from a later iteration than the first,
\* with larger counters
C5_Witness ==
  /\ algorithm = "IDAstar" /\ Len(history) >= 2
  /\ Solved(history[1]) /\ Solved(history[2])
  /\ history[2].node.value > history[1].node.value
  /\ history[2].Visited > history[1].Visited
  /\ history[2].Expanded > history[1].Expanded

\* C6: once a Solve() call has returned an empty solution, every later call
\* returns an empty solution with the same Visited and Expanded.
C6_ExhaustedStaysExhausted ==
  \A p \in Calls :
    ~Solved(history[p[1]]) =>
      /\ ~Solved(history[p[2]])
      /\ history[p[2]].Visited = history[p[1]].Visited
      /\ history[p[2]].Expanded = history[p[1]].Expanded

\* under the cheapest-path constraint a solution, then two empty results with
\* counters that are not zero
C6_Witness ==
  /\ constraint = CheapestPathConstraint /\ Len(history) >= 3
  /\ Solved(history[1]) /\ ~Solved(history[2]) /\ ~Solved(history[3])
  /\ history[3].Visited > 0 /\ history[3].Expanded > 0

\* C7 as stated: after each Solve(), Completed() is true if and only if the
\* next Solve() (and so, by C6, every later one) returns no solution.
C7_CompletedIffNothingLeft ==
  \A i \in 1..(Len(history) - 1) :
    history[i].completed <=> ~Solved(history[i + 1])

\* C7: between Solve() calls, Completed() is true exactly when the most recent
\* Solve() returned an empty solution (so it is false before the first Solve()
\* and after every Solve() that returned a solution), and once it was true no
\* later Solve() returns a solution.
C7_CompletedAfterEmptyResult ==
  /\ pc = "idle" => (Completed <=> (Len(history) >= 1 /\ ~Solved(Last(history))))
  /\ \A i \in 1..Len(history) : history[i].completed <=> ~Solved(history[i])
  /\ \A p \in Calls : history[p[1]].completed => ~Solved(history[p[2]])

\* Completed() was false after the last solution and is true after the empty
\* result that followed it
C7_Witness ==
  /\ pc = "idle" /\ Completed /\ Len(history) >= 3
  /\ Solved(history[1]) /\ ~history[1].completed
  /\ ~Solved(history[2]) /\ history[2].completed
  /\ ~Solved(history[3])

\* C8: with IDA* (here without constraint, limit or heuristic), if an earlier
\* Solve() returns a goal of cost c1 and a later one a goal of cost c2, then
\* c1 <= c2.
C8_IDAstarCheapestFirst ==
  (/\ algorithm = "IDAstar" /\ constraint = NoConstraint /\ limit = Inf)
  => \A p \in Calls :
       (Solved(history[p[1]]) /\ Solved(history[p[2]]))
       => GoalCost(history[p[1]]) <= GoalCost(history[p[2]])

\* IDA* has returned two goals of different costs, the cheaper one first
C8_Witness ==
  /\ algorithm = "IDAstar" /\ constraint = NoConstraint /\ limit = Inf
  /\ Len(history) >= 2 /\ Solved(history[1]) /\ Solved(history[2])
  /\ GoalCost(history[1]) < GoalCost(history[2])

C10_AstarValueOrder ==
  algorithm = "Astar"
  => \A p \in Calls :
       (Solved(history[p[1]]) /\ Solved(history[p[2]]))
       => history[p[1]].node.value <= history[p[2]].node.value

\* A* has returned two solutions in increasing order of value although the
\* second one has the lower cost
C10_Witness ==
  /\ algorithm = "Astar" /\ Len(history) >= 2
  /\ Solved(history[1]) /\ Solved(history[2])
  /\ history[1].node.value < history[2].node.value
  /\ GoalCost(history[1]) > GoalCost(history[2])

\* v can reach w along at least one and at most k edges
RECURSIVE Reaches(_, _, _, _)
Reaches(g, v, w, k) ==
  /\ k > 0
  /\ \E i \in 1..Len(g.edges) :
       /\ g.edges[i].src = v
       /\ IF g.edges[i].dst = w THEN TRUE ELSE Reaches(g, g.edges[i].dst, w, k - 1)

Acyclic(g) == \A v \in Nodes(g) : ~Reaches(g, v, v, Len(g.heur))

\* the (goal state, cost) pairs of a sequence of goal nodes, with their multiplicities
GoalPairs(nodes) ==
  LET pair(n) == <<Id(StateOf(n)), Cost(StateOf(n))>>
  IN [p \in {pair(nodes[i]) : i \in 1..Len(nodes)} |->
        Cardinality({i \in 1..Len(nodes) : pair(nodes[i]) = p})]

\* the goal nodes of the solutions in history
Returned == [i \in 1..Cardinality({j \in 1..Len(history) : Solved(history[j])}) |->
               history[i].node]

\* this solver has returned all its solutions and then an empty one
Exhausted == pc = "idle" /\ Len(history) >= 1 /\ ~Solved(Last(history))

\* C11: on an acyclic graph, with no limit (here with no constraint either), the
\* multiset of (goal state, cost) pairs a solver returns until it is exhausted
\* is the same as the one every other algorithm returns.
C11_SameSolutionsUnderEveryAlgorithm ==
  (/\ Exhausted /\ Len(history) <= MaxSolves
   /\ Acyclic(graph) /\ limit = Inf /\ constraint = NoConstraint)
  => \A a \in Algorithms :
       LET other == solveAll(graph, a, constraint, limit)
       IN ~other.cut => GoalPairs(other.nodes) = GoalPairs(Returned)

\* a solver has returned two solutions on an acyclic graph and every algorithm
\* returns the same pairs
C11_Witness ==
  /\ Exhausted /\ Acyclic(graph) /\ limit = Inf /\ constraint = NoConstraint
  /\ Len(Returned) = 2
  /\ \A a \in Algorithms :
       LET other == solveAll(graph, a, constraint, limit)
       IN ~other.cut /\ GoalPairs(other.nodes) = GoalPairs(Returned)

\* C12: on an acyclic graph without a reachable goal, every Solve() of an IDA*
\* solver with the default limit returns, and returns no solution, whatever the
\* edges cost (+Inf and the largest finite cost included): the driver does not
\* go on with a bound that no longer advances.
C12_IDAstarTerminatesWithoutGoal ==
  (pc # "idle") ~> (pc = "idle" /\ history # <<>> /\ ~Solved(Last(history)))

\* the only edge of the root costs the largest finite value: the bound goes
\* 0, MaxFloat64, and the third search ends the call with an infinite contour
C12_Witness ==
  /\ pc = "idle" /\ Len(history) = 1 /\ ~Solved(history[1])
  /\ algorithm = "IDAstar" /\ limit = Inf /\ Acyclic(graph)
  /\ Len(graph.edges) = 1 /\ graph.edges[1].cost = MaxFloat64
  /\ history[1].Visited = 3

\* C13: with positive edge costs and no heuristic, when a goal can be reached
\* at a cost within the limit, the first Solve() of a depth-first solver with
\* that limit returns, and returns a solution that ends in a goal.
C13_DepthFirstFindsGoalWithinLimit ==
  (/\ pc = "search" /\ history = <<>>
   /\ algorithm = "DepthFirst" /\ PositiveCosts(graph)
   /\ MinCost(graph) < Inf /\ MinCost(graph) <= limit)
  ~> (/\ history # <<>> /\ Solved(history[1])
      /\ IsGoal(graph, Id(Last(history[1].Solution))))

\* the stack went round the loop at the root until the limit cut it off, and
\* the goal returned is not the first node a search without the loop visits
C13_Witness ==
  /\ Len(history) = 1 /\ Solved(history[1]) /\ algorithm = "DepthFirst"
  /\ PositiveCosts(graph) /\ MinCost(graph) <= limit /\ limit = MaxLimit
  /\ ~Acyclic(graph) /\ history[1].Visited > Len(history[1].Solution)

\* the nodes in the slots of the frontier of frame f
Placed(f) ==
  {f.queue.buffer[k] : k \in 1..Len(f.queue.buffer)} \ {Nil}

\* C14: no Solve() returns a solution whose goal node has a value above the
\* limit, and no node with a value above the limit is placed in the frontier.
C14_NothingBeyondLimit ==
  /\ \A i \in 1..Len(history) : Solved(history[i]) => history[i].node.value <= limit
  /\ \A n \in Placed(frame) : n.value <= limit

\* a child of the root was cut off by the limit: the search ended without it
\* although the graph has a goal
C14_Witness ==
  /\ Len(history) = 1 /\ ~Solved(history[1]) /\ MinCost(graph) < Inf
  /\ limit < MinCost(graph) /\ rootNode(graph).value <= limit
  /\ \A n \in Placed(frame) : n.value <= limit

\* the values in the ring buffer q from slot k up to its end, oldest first
RECURSIVE valuesFrom(_, _)
valuesFrom(q, k) ==
  IF k = q.end THEN <<>> ELSE <<At(q.buffer, k).value>> \o valuesFrom(q, inc(q, k))

\* C15: whatever the interleaving of Add and Take, the nodes taken from the
\* ring buffer followed by the nodes still in it are the nodes added, in the
\* order they were added: none lost, duplicated or reordered, also after the
\* buffer has wrapped around and after it has doubled.
C15_RingbufferFifo ==
  taken \o valuesFrom(ringbuffer, ringbuffer.start) = [k \in 1..added |-> k - 1]

\* the buffer has just doubled while it was wrapped around (some nodes had been
\* taken), and one more node has been taken from the new buffer
C15_Witness ==
  /\ Len(ringbuffer.buffer) = 2 * InitialCapacity
  /\ ringbuffer.start = 1 /\ ringbuffer.end = InitialCapacity
  /\ added - Len(taken) = InitialCapacity - 1
  /\ Len(taken) \in 2..(InitialCapacity - 1)
  /\ taken = [k \in 1..Len(taken) |-> k - 1]

\* the graph nodes of a Solution
Ids(solution) == [k \in 1..Len(solution) |-> Id(solution[k])]

\* C16: on the graph of TestSimpleProblem every algorithm with every constraint
\* returns the path a, b, D of cost 2 from the first Solve() and no solution
\* from any later Solve().
C16_SimpleProblem ==
  \A k \in 1..Len(history) :
    IF k = 1
    THEN Ids(history[k].Solution) = <<1, 2, 4>> /\ GoalCost(history[k]) = 2
    ELSE ~Solved(history[k])

\* depth-first search with limit 2 has returned a, b, D and then nothing
C16_Witness ==
  /\ algorithm = "DepthFirst" /\ limit = 2 /\ graph = SimpleGraph
  /\ Len(history) = 2 /\ Ids(history[1].Solution) = <<1, 2, 4>> /\ ~Solved(history[2])

\* the constraints of the test from the weakest to the strongest
ByStrength ==
  <<NoConstraint, NoLoopConstraint(2), NoLoopConstraint(NoLoopAll), CheapestPathConstraint>>

\* expExpanded, expVisited of testStatistics for each of them
Expected == <<<<27, 16>>, <<8, 7>>, <<6, 6>>, <<4, 5>>>>

\* C17: on the graph of TestStatisticsWithDifferentConstraints the first Solve()
\* of A* reports the expanded/visited counts 27/16, 8/7, 6/6, 4/5 under the
\* constraints none, no-loop 2, no-loop unbounded, cheapest-path: both counts
\* go down strictly from each constraint to the next stronger one, and the
\* path returned ends in E at the same cost under all four.
C17_StatisticsDecrease ==
  FirstSolveDone =>
    /\ \A k \in 1..4 :
         constraint = ByStrength[k] =>
           <<history[1].Expanded, history[1].Visited>> = Expected[k]
    /\ LET first(k) == firstSolve(graph, algorithm, ByStrength[k], limit).res
       IN /\ \A k \in 1..3 : /\ first(k).expanded > first(k + 1).expanded
                               /\ first(k).visited > first(k + 1).visited
          /\ \A k \in 1..4 : /\ Id(StateOf(first(k).node)) = 5
                               /\ Cost(StateOf(first(k).node)) = GoalCost(history[1])

\* the first Solve() under the cheapest-path constraint has returned the path to E
C17_Witness ==
  /\ Len(history) = 1 /\ constraint = CheapestPathConstraint /\ graph = StatisticsGraph
  /\ Id(Last(history[1].Solution)) = 5 /\ GoalCost(history[1]) = 4
  /\ history[1].Expanded = 4 /\ history[1].Visited = 5

\* state t is one of the states Expand returns for state s
IsChild(g, s, t) ==
  \E i \in 1..Len(Expand(g, Id(s))) : expand(g, s, Expand(g, Id(s))[i]) = t

\* C18: the Solution of a Result made from a goal node starts with the root
\* state, ends with a state that satisfies IsGoal, and each state after the
\* first is one that Expand returns for the state before it; the Solution of
\* a Result without a goal node is empty.
C18_SolutionIsPathFromRoot ==
  \A k \in 1..Len(history) :
    LET sol == history[k].Solution
    IN IF history[k].node = Nil THEN sol = <<>>
       ELSE /\ Len(sol) >= 1
            /\ sol[1] = rootState
            /\ IsGoal(graph, Id(Last(sol)))
            /\ \A j \in 1..(Len(sol) - 1) : IsChild(graph, sol[j], sol[j + 1])

\* a path of three edges has been returned, and later an empty Result
C18_Witness ==
  /\ Len(history) >= 2 /\ Len(history[1].Solution) = 4 /\ history[1].Solution[1] = rootState
  /\ IsGoal(graph, Id(Last(history[1].Solution)))
  /\ Last(history).node = Nil /\ Last(history).Solution = <<>>

SinceSolveAll == SubSeq(history, solveAllFrom + 1, Len(history))

\* the Results put into the channel so far, received or not
Sent == received \o solutions.buffer

\* sq is the beginning of sr
IsPrefix(sq, sr) == Len(sq) <= Len(sr) /\ sq = SubSeq(sr, 1, Len(sq))

C21_UnknownAlgorithmPanics ==
  /\ [](algorithm = UnknownAlgorithm =>
          /\ history = <<>>
          /\ pc \in {"idle", "panic"}
          /\ frame = NilFrame /\ result = NoResult)
  /\ [][algorithm = UnknownAlgorithm /\ pc = "idle" /\ pc' # pc => pc' = "panic"]_vars

C21_Witness ==
  algorithm = UnknownAlgorithm /\ pc = "panic" /\ started /\ history = <<>>


\* the number of nodes a frontier holds
frontierSize(q) ==
  IF q.kind = "ring" THEN (q.end - q.start + Len(q.buffer)) % Len(q.buffer)
  ELSE Len(q.buffer)

\* C22: Take on a frontier that holds no node returns nil and leaves the frontier
\* as it is, whatever the strategy, and generalSearch then returns normally: a
\* result without node and without continuation, the counters as they were. The
\* frontier holds no node exactly when as many nodes were taken as were added.
C22_TakeOnEmptyFrontier ==
  /\ []((pc = "search" /\ algorithm # "IDAstar") =>
          frontierSize(frame.queue) = 1 + frame.expanded - frame.visited)
  /\ [][(pc = "search" /\ frontierSize(frame.queue) = 0) =>
          /\ Take(frame.queue) = [n |-> Nil, queue |-> frame.queue]
          /\ frame' = frame
          /\ pc' = "returned"
          /\ lastResult' = [node |-> Nil, contour |-> frame.contour,
                            visited |-> frame.visited, expanded |-> frame.expanded,
                            next |-> NoNext]]_vars

C22_Witness ==
  /\ pc = "returned" /\ lastResult.node = Nil
  /\ algorithm = "BreadthFirst"
  /\ frame.queue.start = frame.queue.end /\ frame.queue.start > 0
  /\ frame.visited > 1


\* C23: in IDA*, the Solve() after a solution goes on with the iteration that
\* found it: the frontier, the bound, the upper bound of known solutions and the
\* store of the constraint are those the iteration had when it returned, and no
\* root is added. A new iteration starts only from an iteration whose frontier
\* is exhausted; it has a fresh frontier with the root alone, the contour of the
\* exhausted iteration as its bound and the former bound as its ubound.
C23_IDAstarFinishesTheIteration ==
  /\ [][(algorithm = "IDAstar" /\ pc = "idle" /\ pc' = "search" /\ started) =>
          /\ Solved(Last(history))
          /\ frame' = frame /\ frame'.queue = result.next.frame.queue
          /\ m' = m
          /\ ida'.contour = frame.limit /\ ida'.ubound = frame.ubound]_vars
  /\ [][(algorithm = "IDAstar" /\ pc = "returned" /\ pc' = "search") =>
          /\ frontierSize(frame.queue) = 0 /\ lastResult.node = Nil
          /\ frame'.queue = Add(depthFirst, rootNode(graph))
          /\ frame'.limit = lastResult.contour /\ frame'.limit > frame.limit
          /\ frame'.ubound = frame.limit
          /\ ida.contour = frame.limit]_vars

C23_Witness ==
  /\ algorithm = "IDAstar" /\ pc = "search"
  /\ history # <<>> /\ Solved(Last(history))
  /\ frontierSize(frame.queue) > 0
  /\ frame.ubound >= Last(history).node.value


\* C24: no two Solve() calls on a solver return the same path (the same edges
\* from the root), under every algorithm; and an IDA* iteration returns only
\* goals whose value is above its ubound, the bound of the iteration before.
C24_NoPathReportedTwice ==
  /\ [](\A i, j \in 1..Len(history) :
          (i < j /\ Solved(history[i]) /\ Solved(history[j])) =>
             history[i].node.via # history[j].node.via)
  /\ [][(algorithm = "IDAstar" /\ pc = "search" /\ pc' = "returned"
           /\ lastResult'.node # Nil) =>
          lastResult'.node.value > frame.ubound]_vars

C24_Witness ==
  /\ algorithm = "IDAstar" /\ constraint = NoConstraint
  /\ pc = "idle" /\ Len(history) >= 2
  /\ Solved(history[1]) /\ Solved(history[2])
  /\ frame.ubound >= history[1].node.value
  /\ Len(history[2].node.via) > Len(history[1].node.via)


\* the search in progress is a fresh one: not an IDA* iteration after the first
FreshSearch == algorithm # "IDAstar" \/ ida.contour = 0

\* C25: on a fresh search every goal node that is taken from the frontier and
\* not pruned by onVisit is returned as the solution by that very step,
\* whatever its value; it is not expanded.
C25_FreshSearchReturnsEveryGoal ==
  [][(pc = "search" /\ FreshSearch /\ frame.visited < MaxVisited
        /\ Take(frame.queue).n # Nil
        /\ IsGoal(graph, StateOf(Take(frame.queue).n).node)
        /\ ~onVisit(constraint, m, Take(frame.queue).n).prune) =>
       /\ pc' = "returned"
       /\ lastResult'.node = Take(frame.queue).n
       /\ frame'.expanded = frame.expanded]_vars

\* a fresh search below a root of negative value has returned the first goal
\* it took from the frontier, a goal of value zero or more
C25_Witness ==
  /\ pc = "idle" /\ Len(history) = 1 /\ Solved(history[1])
  /\ rootNode(graph).value < 0 /\ ~IsGoal(graph, Root)
  /\ history[1].node.value >= 0
  /\ \A k \in 1..(Len(history[1].Solution) - 1) : ~IsGoal(graph, history[1].Solution[k].node)


\* C26: with the cheapest-path constraint, every bounded search starts with an
\* empty store and with the root still in the frontier: the first Solve() of
\* A*, BreadthFirst and DepthFirst, and every iteration of IDA*. No other step
\* empties the store: a Solve() that resumes leaves it as it is, and a step of
\* the search loop only adds entries or replaces them.
C26_ResetAtTheStartOnly ==
  /\ [][(pc' = "search" /\ ((pc = "idle" /\ ~started) \/ pc = "returned")) =>
          /\ m' = emptyMap(Nodes(graph))
          /\ frame'.queue = Add(IF algorithm = "IDAstar" THEN depthFirst
                                ELSE strategyOf(algorithm), rootNode(graph))
          /\ frame'.visited = (IF pc = "returned" THEN lastResult.visited ELSE 0)]_vars
  /\ [][(pc = "idle" /\ started) \/ pc' = "idle" => m' = m]_vars
  /\ [][pc = "search" => \A v \in Nodes(graph) : m[v].ok => m'[v].ok]_vars

C26_Witness ==
  /\ algorithm = "IDAstar" /\ constraint = CheapestPathConstraint
  /\ pc = "search" /\ ida.ubound >= 0
  /\ m = emptyMap(Nodes(graph))
  /\ frame.queue = Add(depthFirst, rootNode(graph))
  /\ frame.visited > 1 /\ history # <<>>


\* the nodes a search on graph g can hand to the constraint, as far as the
\* constraint looks at them: a state and a value
Candidates(g) ==
  {[path |-> <<[node |-> s, cost |-> v]>>, via |-> <<>>, value |-> v] :
     s \in Nodes(g), v \in 0..(3 * MaxCost)}

\* C27: for every store a search reaches and every candidate child of state s
\* and value v, onExpand of the cheapest-path constraint prunes the child
\* exactly when the store has an entry for s whose value is v or less; when it
\* does not prune, the entry for s becomes (v, not visited) and no other entry
\* changes; when it prunes, the store is unchanged.
C27_CheapestOnExpand ==
  constraint = CheapestPathConstraint =>
    \A n \in Candidates(graph) :
      LET s == Id(StateOf(n))
          r == onExpand(constraint, m, n)
      IN /\ r.prune <=> (m[s].ok /\ m[s].value <= n.value)
         /\ ~r.prune => /\ r.m[s] = [ok |-> TRUE, value |-> n.value, visited |-> FALSE]
                        /\ \A t \in Nodes(graph) \ {s} : r.m[t] = m[t]
         /\ r.prune => r.m = m

\* on the triangle whose two ways to the goal cost the same, the second way
\* was pruned when node 2 was expanded: only the children of the root were added
C27_Witness ==
  /\ constraint = CheapestPathConstraint /\ algorithm = "Astar"
  /\ pc = "search" /\ frame.visited = 2 /\ frame.expanded = 2
  /\ Len(graph.edges) = 3
  /\ graph.edges[1].cost + graph.edges[3].cost = graph.edges[2].cost
  /\ m[2].visited
  /\ m[3] = [ok |-> TRUE, value |-> graph.edges[2].cost, visited |-> FALSE]


\* C28: for every store a search reaches and every dequeued node of state s and
\* value v, onVisit of the cheapest-path constraint lets the node pass exactly
\* when the store has no entry for s, or v is below the stored value, or v
\* equals the stored value and the entry is not marked visited; when the node
\* passes, the entry for s becomes (v, visited) and no other entry changes;
\* when it is pruned, the store is unchanged.
C28_CheapestOnVisit ==
  constraint = CheapestPathConstraint =>
    \A n \in Candidates(graph) :
      LET s == Id(StateOf(n))
          r == onVisit(constraint, m, n)
          passes == IF ~m[s].ok THEN TRUE
                    ELSE IF n.value < m[s].value THEN TRUE
                    ELSE n.value = m[s].value /\ ~m[s].visited
      IN /\ r.prune <=> ~passes
         /\ ~r.prune => /\ r.m[s] = [ok |-> TRUE, value |-> n.value, visited |-> TRUE]
                        /\ \A t \in Nodes(graph) \ {s} : r.m[t] = m[t]
         /\ r.prune => r.m = m

\* on the triangle, node 2 was dequeued with the value onExpand had stored for
\* it and passed: its entry is now marked visited, that of node 3 not yet
C28_Witness ==
  /\ constraint = CheapestPathConstraint /\ algorithm = "BreadthFirst"
  /\ pc = "search" /\ frame.visited = 2
  /\ Len(graph.edges) = 3
  /\ m[2] = [ok |-> TRUE, value |-> graph.edges[1].cost, visited |-> TRUE]
  /\ m[3].ok /\ ~m[3].visited


\* C29: with the cheapest-path constraint, no two of the nodes that passed
\* onVisit since the last reset() have the same state and the same value,
\* whatever the strategy and the order in which the nodes come up.
C29_OneNodePerStateAndValue ==
  constraint = CheapestPathConstraint =>
    \A i, j \in 1..Len(passed) : i < j => passed[i] # passed[j]

\* two paths of the same cost reach node 3 of the diamond; one node of that
\* state and value has passed, the state after it has been reached, and the
\* frontier is empty: the other one did not pass
C29_Witness ==
  /\ constraint = CheapestPathConstraint /\ pc = "returned"
  /\ frontierSize(frame.queue) = 0 /\ lastResult.node = Nil
  /\ Len(graph.edges) = 4 /\ graph.edges[3].dst = 3 /\ graph.edges[2].dst = 3
  /\ graph.edges[1].cost + graph.edges[3].cost = graph.edges[2].cost
  /\ graph.heur = zeroHeur(4)
  /\ \E k \in 1..Len(passed) : passed[k] = <<3, graph.edges[2].cost>>
  /\ \A i, j \in 1..Len(passed) : i < j => passed[i][1] # passed[j][1]


\* C30: with A*, no heuristic, costs that are not negative and the
\* cheapest-path constraint, no state passes onVisit twice in the whole
\* search, however many Solve() calls it takes.
C30_AstarVisitsEachStateOnce ==
  (algorithm = "Astar" /\ constraint = CheapestPathConstraint
     /\ graph.heur = zeroHeur(Len(graph.heur))) =>
    \A i, j \in 1..Len(passed) : i < j => passed[i][1] # passed[j][1]

\* the search is over after more than one Solve(); a state that two paths of
\* different costs reach has passed, with the lower of the two values
C30_Witness ==
  /\ algorithm = "Astar" /\ constraint = CheapestPathConstraint
  /\ pc = "idle" /\ Len(history) >= 2 /\ Exhausted
  /\ Len(graph.edges) = 3
  /\ graph.edges[1].cost + graph.edges[3].cost < graph.edges[2].cost
  /\ \E k \in 1..Len(passed) :
       passed[k] = <<3, graph.edges[1].cost + graph.edges[3].cost>>
  /\ frame.visited > Len(passed)


\* the values of the nodes of state s that passed onVisit or were not pruned
\* by onExpand since the last reset()
ValuesSeen(s) ==
  {passed[k][2] : k \in {i \in 1..Len(passed) : passed[i][1] = s}}
    \cup {kept[k][2] : k \in {i \in 1..Len(kept) : kept[i][1] = s}}

\* C31: with the cheapest-path constraint the store has an entry for a state
\* exactly when a node of that state has passed onExpand or onVisit since the
\* last reset(), and the value of the entry is the smallest value of those
\* nodes; a step of the search never raises the value of an entry, and it
\* clears the visited flag of an entry only together with a strictly lower value.
C31_StoreHoldsTheSmallestValue ==
  /\ [](constraint = CheapestPathConstraint =>
          \A s \in Nodes(graph) :
            /\ m[s].ok <=> ValuesSeen(s) # {}
            /\ m[s].ok => /\ m[s].value \in ValuesSeen(s)
                          /\ \A v \in ValuesSeen(s) : m[s].value <= v)
  /\ [][(constraint = CheapestPathConstraint /\ pc = "search") =>
          \A s \in Nodes(graph) :
            /\ m[s].ok => (m'[s].ok /\ m'[s].value <= m[s].value)
            /\ (m[s].ok /\ m[s].visited /\ ~m'[s].visited) => m'[s].value < m[s].value]_vars

\* a node of state s passed onVisit, and later onExpand let a node of the
\* same state with a lower value through: the entry has the lower value and
\* is not marked visited
C31_Witness ==
  /\ constraint = CheapestPathConstraint
  /\ \E s \in Nodes(graph) :
       /\ m[s].ok /\ ~m[s].visited
       /\ \E k \in 1..Len(passed) : passed[k][1] = s /\ passed[k][2] > m[s].value


\* the nodes whose path is any sequence of up to four states of graph g
PathNodes(g) ==
  UNION {{[path |-> [k \in 1..len |-> [node |-> p[k], cost |-> 0]], via |-> <<>>, value |-> 0] :
            p \in [1..len -> Nodes(g)]} : len \in 1..4}

\* the state of node n equals that of one of its nearest d ancestors
LoopWithin(n, d) ==
  \E k \in 1..Min(d, Len(n.path) - 1) :
    Id(n.path[Len(n.path) - k]) = Id(n.path[Len(n.path)])

\* C32: the no-loop constraint of depth d prunes a child in onExpand exactly
\* when the state of one of its nearest d ancestors equals its own: with d = 2
\* the parent and the grandparent count and the great-grandparent does not, and
\* a node without ancestors is never pruned; onVisit prunes nothing.  Hence no
\* node in the frontier repeats the state of one of its nearest d ancestors.
C32_NoLoopConstraint ==
  constraint.kind = "noloop" =>
    /\ \A n \in PathNodes(graph) :
         /\ onExpand(constraint, m, n).prune <=> LoopWithin(n, constraint.depth)
         /\ onExpand(constraint, m, n).m = m
         /\ onVisit(constraint, m, n) = [prune |-> FALSE, m |-> m]
         /\ Len(n.path) = 1 => ~onExpand(constraint, m, n).prune
    /\ \A n \in PathNodes(graph) :
         (Len(n.path) = 4 /\ Id(n.path[1]) = Id(n.path[4]) /\ Id(n.path[2]) # Id(n.path[4])
            /\ Id(n.path[3]) # Id(n.path[4])) =>
           ~onExpand(NoLoopConstraint(2), m, n).prune
    /\ \A n \in Placed(frame) : ~LoopWithin(n, constraint.depth)

\* under depth 2 a node that repeats the state of its great-grandparent is in
\* the frontier
C32_Witness ==
  /\ constraint = NoLoopConstraint(2) /\ pc = "search"
  /\ \E n \in Placed(frame) :
       /\ Len(n.path) >= 4
       /\ Id(n.path[Len(n.path) - 3]) = Id(StateOf(n))
       /\ ~LoopWithin(n, 2)


\* the values of the children that onExpand did not prune and the limit cut
\* off, since the running bounded search was started
CutOff == {kept[k][2] : k \in {i \in 1..Len(kept) : ~kept[i][3]}}

\* C33: the contour of a bounded search is at every moment, and so when the
\* search returns with its frontier exhausted, the smallest value of the
\* children that were generated, not pruned by onExpand and cut off by the
\* limit since the search was started, suspensions included; it is +Inf when
\* there is no such child.
C33_ContourIsSmallestCutOff ==
  /\ pc \in {"search", "returned"} =>
       /\ CutOff = {} => frame.contour = Inf
       /\ CutOff # {} => /\ frame.contour \in CutOff
                         /\ \A v \in CutOff : frame.contour <= v
  /\ (pc = "returned" /\ lastResult.node = Nil) =>
       /\ lastResult.contour = frame.contour
       /\ frontierSize(frame.queue) = 0

\* a search that was suspended at a solution has gone on and exhausted its
\* frontier; two children of different values were cut off
C33_Witness ==
  /\ pc = "returned" /\ lastResult.node = Nil /\ algorithm # "IDAstar"
  /\ Len(history) >= 1 /\ Solved(history[1])
  /\ lastResult.contour < Inf
  /\ \E v \in CutOff : v > lastResult.contour


\* C34: in IDA* the bound of a bounded search never exceeds the limit given to
\* the solver, and each new iteration runs with a bound strictly greater than
\* that of the iteration before.
C34_BoundGrowsWithinLimit ==
  /\ []((algorithm = "IDAstar" /\ pc \in {"search", "returned"}) => frame.limit <= limit)
  /\ [][(algorithm = "IDAstar" /\ pc = "returned" /\ pc' = "search") =>
          frame'.limit > frame.limit]_vars

\* an iteration after the first runs under a finite limit, with a bound above
\* that of the iteration before and within the limit
C34_Witness ==
  /\ algorithm = "IDAstar" /\ pc = "search" /\ limit < Inf
  /\ ida.ubound >= 0 /\ frame.limit > ida.ubound /\ frame.limit <= limit


\* Cost + Heuristic of the k-th state of a path
Estimate(g, path, k) == AddF(Cost(path[k]), Heuristic(g, Id(path[k])))

\* the value the k-th node of a path must have: the largest estimate up to there
RECURSIVE ValueAlong(_, _, _)
ValueAlong(g, path, k) ==
  IF k = 1 THEN Estimate(g, path, 1)
  ELSE Max(ValueAlong(g, path, k - 1), Estimate(g, path, k))

\* the nodes the solver holds or has handed out: those in the slots of the
\* frontier and those of the Results
NodesHeld ==
  (Placed(frame) \cup {history[k].node : k \in 1..Len(history)}) \ {Nil}

\* C35: the value of the root is Cost + Heuristic of the root state, the value
\* of every other node is the maximum of its parent's value and Cost +
\* Heuristic of its own state, so the values do not decrease along the path of
\* a node; and a step changes no node: what the frontier holds afterwards was
\* there before or is a child made by that step from the node it took.
C35_ValueIsMaxAlongPath ==
  /\ [](\A n \in NodesHeld :
          /\ n.value = ValueAlong(graph, n.path, Len(n.path))
          /\ Len(n.path) = 1 => n.value = AddF(Cost(rootState), Heuristic(graph, Root))
          /\ \A k \in 2..Len(n.path) :
               /\ ValueAlong(graph, n.path, k)
                    = Max(ValueAlong(graph, n.path, k - 1), Estimate(graph, n.path, k))
               /\ ValueAlong(graph, n.path, k - 1) <= ValueAlong(graph, n.path, k))
  /\ [][pc = "search" =>
          /\ Placed(frame') \subseteq
               Placed(frame) \cup
                 (IF Take(frame.queue).n = Nil THEN {}
                  ELSE {childNode(graph, Take(frame.queue).n, i) :
                          i \in 1..Len(graph.edges)})
          /\ lastResult' # lastResult => lastResult'.node \in Placed(frame) \cup {Nil}]_vars

\* a node whose own estimate is below the value of its parent is held with the
\* parent's value
C35_Witness ==
  \E n \in NodesHeld :
    /\ Len(n.path) >= 2
    /\ Estimate(graph, n.path, Len(n.path)) < n.value
    /\ n.value = ValueAlong(graph, n.path, Len(n.path) - 1)


\* how many of the recorded children were added to the frontier
AddedCount(s) == Cardinality({k \in 1..Len(s) : s[k][3]})

\* C36: in the search loop Visited grows by exactly 1 with every node taken
\* from the frontier (pruned by onVisit and returned goals included) and not
\* otherwise; Expanded grows by exactly 1 with every child added to the
\* frontier and not with a child pruned by onExpand or cut by the limit; a
\* search starts without counting the root; a node pruned by onVisit is
\* neither returned nor expanded.
C36_Counting ==
  /\ [][pc = "search" =>
          LET n == Take(frame.queue).n
              grown == frame'.expanded - frame.expanded
          IN /\ frame'.visited = frame.visited + (IF n = Nil THEN 0 ELSE 1)
             /\ grown = AddedCount(kept') - AddedCount(kept)
             /\ frontierSize(frame'.queue)
                  = frontierSize(frame.queue) - (IF n = Nil THEN 0 ELSE 1) + grown
             /\ (n # Nil /\ onVisit(constraint, m, n).prune) =>
                  /\ grown = 0
                  /\ kept' = kept
                  /\ pc' = "search"
                  /\ lastResult' = lastResult
             /\ (n # Nil /\ pc' = "returned") =>
                  /\ lastResult'.node = n
                  /\ lastResult'.visited = frame.visited + 1
                  /\ grown = 0]_vars
  /\ [][(pc # "search" /\ pc' = "search") =>
          /\ frame'.expanded = lastResult.expanded
          /\ frame'.visited = lastResult.visited
          /\ ~started => (frame'.expanded = 0 /\ frontierSize(frame'.queue) = 1)]_vars
  /\ [](algorithm # "IDAstar" /\ pc \in {"search", "returned"}
          => frame.expanded = AddedCount(kept))

\* a search that has taken a node onVisit pruned (more nodes visited than
\* passed onVisit), has added children and returns a goal
C36_Witness ==
  /\ algorithm # "IDAstar"
  /\ pc = "returned"
  /\ lastResult.node # Nil
  /\ frame.visited > Len(passed)
  /\ frame.expanded > 0


\* x comes before y in the order "value ascending, and among equal values the
\* larger state Cost first"
Before(x, y) ==
  \/ x.value < y.value
  \/ x.value = y.value /\ Cost(StateOf(x)) > Cost(StateOf(y))

\* the nodes of the heap h, as a set
Held(h) == {h[k] : k \in 1..Len(h)}

\* C37: Take on the priority queue returns a node that no node of the queue
\* comes before in the order "value ascending, and among equal values the larger
\* state Cost first"; Take removes that node and no other, Add adds its node
\* and no other.
C37_TakeIsMinimalByValueThenCost ==
  (algorithm = "Astar" /\ pc = "search" /\ Len(frame.queue.buffer) > 0) =>
    LET t == Take(frame.queue)
    IN /\ t.n \in Held(frame.queue.buffer)
       /\ \A x \in Held(frame.queue.buffer) : ~Before(x, t.n)
       /\ Held(t.queue.buffer) = Held(frame.queue.buffer) \ {t.n}
       /\ Len(t.queue.buffer) = Len(frame.queue.buffer) - 1
       /\ \A i \in 1..Len(graph.edges) :
            LET child == childNode(graph, t.n, i)
                q == Add(t.queue, child)
            IN /\ Held(q.buffer) = Held(t.queue.buffer) \cup {child}
               /\ Len(q.buffer) = Len(t.queue.buffer) + 1

\* the part of C37 that does not depend on the cost: the node taken has the
\* smallest value of the queue, and Take and Add lose and duplicate nothing
TakeIsMinimalByValue ==
  (algorithm = "Astar" /\ pc = "search" /\ Len(frame.queue.buffer) > 0) =>
    LET t == Take(frame.queue)
    IN /\ t.n \in Held(frame.queue.buffer)
       /\ \A x \in Held(frame.queue.buffer) : t.n.value <= x.value
       /\ Held(t.queue.buffer) = Held(frame.queue.buffer) \ {t.n}
       /\ Len(t.queue.buffer) = Len(frame.queue.buffer) - 1
       /\ Cardinality(Held(frame.queue.buffer)) = Len(frame.queue.buffer)

\* the priority queue holds two nodes of one value and different costs, and
\* Take returns the one with the smaller cost
C37_Witness ==
  /\ algorithm = "Astar" /\ pc = "search" /\ Len(frame.queue.buffer) > 1
  /\ \E x \in Held(frame.queue.buffer) :
       /\ x.value = Take(frame.queue).n.value
       /\ Cost(StateOf(x)) > Cost(StateOf(Take(frame.queue).n))


RECURSIVE IsPowerOfTwo(_)
IsPowerOfTwo(k) == k = 1 \/ (k > 1 /\ k % 2 = 0 /\ IsPowerOfTwo(k \div 2))

\* the slots of the ring buffer q that hold a stored node, from start up to end
LiveSlots(q) ==
  {k \in 0..(Len(q.buffer) - 1) :
     IF q.start <= q.end THEN q.start <= k /\ k < q.end
     ELSE k >= q.start \/ k < q.end}

\* C38: after every Add and Take on the ring buffer the capacity is a power of
\* two, both cursors are within [0, capacity) and fewer nodes are stored than
\* the capacity (start = end means empty, never full); the capacity changes
\* only by doubling.
C38_RingbufferInvariants ==
  /\ [](/\ IsPowerOfTwo(Len(ringbuffer.buffer))
        /\ ringbuffer.start \in 0..(Len(ringbuffer.buffer) - 1)
        /\ ringbuffer.end \in 0..(Len(ringbuffer.buffer) - 1)
        /\ frontierSize(ringbuffer) < Len(ringbuffer.buffer)
        /\ frontierSize(ringbuffer) = added - Len(taken)
        /\ Cardinality(LiveSlots(ringbuffer)) = added - Len(taken)
        /\ \A k \in LiveSlots(ringbuffer) : At(ringbuffer.buffer, k) # Nil
        /\ ringbuffer.start = ringbuffer.end <=> added = Len(taken))
  /\ [][\/ Len(ringbuffer'.buffer) = Len(ringbuffer.buffer)
        \/ /\ Len(ringbuffer'.buffer) = 2 * Len(ringbuffer.buffer)
           /\ frontierSize(ringbuffer) = Len(ringbuffer.buffer) - 1
           /\ added' = added + 1]_vars

\* the ring buffer has doubled after nodes had been taken, and holds more
\* nodes than its first capacity
C38_Witness ==
  /\ Len(ringbuffer.buffer) = 2 * InitialCapacity
  /\ Len(taken) > 0
  /\ added - Len(taken) > InitialCapacity


\* C39: with a finite limit and positive edge costs on a finite graph with
\* cycles, under no constraint and whatever the algorithm, every Solve()
\* returns, and a caller that goes on calling Solve() gets an empty solution
\* after finitely many calls, from when on Completed() is true.
C39_TerminatesWithinLimit ==
  /\ (pc # "idle") ~> (pc = "idle")
  /\ <>[](Exhausted /\ Completed)

\* the solver of a graph with a cycle has returned a solution and then an
\* empty one, and is completed
C39_Witness ==
  /\ Exhausted /\ Completed
  /\ ~Acyclic(graph) /\ PositiveCosts(graph) /\ limit = MaxLimit
  /\ Len(history) >= 2 /\ Solved(history[1])
  /\ Last(history).Visited > Len(graph.heur)

====
